---- MODULE Spec2Model ----
(***************************************************************************)
(* A model of the Noxy compiler (src/compiler.py): the module resolver,   *)
(* the semantic checker, the compile entry points, the code generator's   *)
(* declaration passes and statement lowering, and the allocation ledger   *)
(* of the generated program.                                              *)
(*                                                                         *)
(* The compiler is sequential.  Each part is a state machine over its own *)
(* variables with its own specification; the variables of the other parts  *)
(* stay at their initial values.                                          *)
(***************************************************************************)
EXTENDS Integers, Sequences, FiniteSets, TLC

VARIABLES
    \* ---- module resolver (NoxyCompiler / ModuleManager) ----
    loaded_modules,     \* ModuleManager.loaded_modules: module name -> exported symbols
    use_nodes,          \* the UseNode statements of the compiled file, in textual order
    use_pos,            \* index of the next UseNode _process_imports handles
    imported_symbols,   \* NoxyCompiler.imported_symbols: key -> symbol info
    import_error,       \* TRUE once _handle_use_statement raised NoxyError
    hash_order          \* the order in which this run of Python iterates a set of names

resolverVars == <<loaded_modules, use_nodes, use_pos, imported_symbols, import_error, hash_order>>

VARIABLES
    \* ---- the compiled file ----
    ast,                \* ProgramNode.statements of the compiled file
    \* ---- code generator (LLVMCodeGenerator) ----
    gen_pc,             \* the step of generate() that runs next
    gen_pos,            \* index of the statement the running loop of generate() handles next
    struct_types,       \* LLVMCodeGenerator.struct_types: struct name -> lowered layout
    struct_log,         \* the writes to struct_types, in order
    gen_error,          \* the exception generate() raised, or "none"
    module,             \* self.module: function name -> the instructions written into it
    current_function,   \* name of self.current_function, "" for None
    local_vars,         \* self.local_vars: name -> lowered class of the slot
    global_vars,        \* self.global_vars: name -> lowered class of the global
    functions,          \* self.functions: name -> [params, return_type]
    type_map,           \* self.type_map: name -> declared type
    break_target,       \* self.break_target: block number, 0 for None
    allocation_array,   \* TRUE while self.allocation_array is not None
    allocated_ptrs,     \* len(self.allocated_ptrs)
    next_block,         \* number of basic blocks appended so far
    break_log,          \* one entry per BreakNode lowered, in order
    assign_log          \* one entry per reassignment `x = e` lowered, in order

astVars == <<ast>>
genVars == <<gen_pc, gen_pos, struct_types, struct_log, gen_error, module, current_function,
             local_vars, global_vars, functions, type_map, break_target, allocation_array,
             allocated_ptrs, next_block, break_log, assign_log>>

VARIABLES
    \* ---- one run of the generated program ----
    rt_pc,              \* "off", "running", "exited" or "crashed"
    rt_frames,          \* the call stack: [fn, ip, args, locals, stack, cleanup_i, cleanup_count]
    rt_globals,         \* the value of every global of the module
    allocation_count,   \* the global @allocation_count
    allocation_ledger,  \* the global @allocation_array: the slots written, from slot 0 on
    rt_heap,            \* the blocks malloc returned, in order: block p is rt_heap[p]
    rt_freed,           \* the pointers passed to free, in order
    rt_output           \* the values printed, in order

rtVars == <<rt_pc, rt_frames, rt_globals, allocation_count, allocation_ledger, rt_heap,
            rt_freed, rt_output>>

VARIABLES
    \* ---- one call of NoxyCompiler.compile or compile_with_debug_ir ----
    drv_entry,          \* the method called
    source,             \* the source text: what its lexing and its parsing raise
    drv_pc,             \* the stage the call is at, "returned" or "raised" at its end
    stages,             \* the stages that ran, in order, each with the error it raised
    semantic_success,   \* local of compile_with_debug_ir
    error_message,      \* local of compile_with_debug_ir: <<>> is None
    ir_code,            \* the IR returned: <<>> is None, else <<module>>
    raised              \* the exception that left the call, "none" if none

drvVars == <<drv_entry, source, drv_pc, stages, semantic_success, error_message, ir_code,
             raised>>

VARIABLES
    \* ---- one Lexer and one Parser ----
    front_pc,           \* "off", "lexing", "parsing", "parsed" or "raised"
    lexer,              \* the Lexer: source, position, line, column, tokens, error
    lex_starts,         \* per token, the value of Lexer.position when its reading began
    parser,             \* the Parser: position, in_function_depth, defined names, error
    program             \* the statements parse() has collected

frontVars == <<front_pc, lexer, lex_starts, parser, program>>

vars == <<resolverVars, astVars, genVars, rtVars, drvVars, frontVars>>

(***************************************************************************)
(* TYPES                                                                   *)
(***************************************************************************)
Type(t, n, k) == [t |-> t, name |-> n, size |-> k]
IntType           == Type("int", "", 0)
StringType        == Type("string", "", 0)
VoidType          == Type("void", "", 0)
NoType            == Type("none", "", 0)        \* var_type is None (reassignment)
StructType(n)     == Type("struct", n, 0)
ReferenceType(n)  == Type("ref", n, 0)          \* ref to struct n
ArrayType(n, k)   == Type("array", n, k)        \* n[k]: element int or struct n; k = 0: no size

(***************************************************************************)
(* AST nodes.  Every node has the same shape: its class name, the string   *)
(* attribute that names something (identifier, function_name,             *)
(* struct_name, array_name), its expression children, and two statement    *)
(* lists (then_branch/body and else_branch).                              *)
(***************************************************************************)
Node(k, n, kids, body, orelse) ==
    [kind |-> k, name |-> n, kids |-> kids, body |-> body, orelse |-> orelse]

IdentifierNode(n)          == Node("Identifier", n, <<>>, <<>>, <<>>)
NumberNode(v) ==
    [kind |-> "Number", name |-> "", value |-> v, kids |-> <<>>, body |-> <<>>, orelse |-> <<>>]
\* FloatNode(v): the literal v.0
FloatNode(v) ==
    [kind |-> "Float", name |-> "", value |-> v, kids |-> <<>>, body |-> <<>>, orelse |-> <<>>]
BooleanNode(v) ==
    [kind |-> "Boolean", name |-> "", value |-> v, kids |-> <<>>, body |-> <<>>, orelse |-> <<>>]
StringNode                 == Node("String", "", <<>>, <<>>, <<>>)
\* FStringNode(parts): a literal part is a Literal entry, the others are expressions
Literal                    == Node("str", "", <<>>, <<>>, <<>>)
FStringNode(parts)         == Node("FString", "", parts, <<>>, <<>>)
\* ZerosNode(size, element_type), element type int
ZerosNode(n) ==
    [kind |-> "Zeros", name |-> "", size |-> n, kids |-> <<>>, body |-> <<>>, orelse |-> <<>>]
CallNode(f, args)          == Node("Call", f, args, <<>>, <<>>)
StructConstructorNode(s, args) == Node("StructConstructor", s, args, <<>>, <<>>)
ArrayAccessNode(a, idx)    == Node("ArrayAccess", a, <<idx>>, <<>>, <<>>)
StructAccessNode(s)        == Node("StructAccess", s, <<>>, <<>>, <<>>)
\* BinaryOpNode(left, operator, right); the operator is the TokenType name
BinaryOpNode(l, op, r) ==
    [kind |-> "BinaryOp", name |-> "", operator |-> op, kids |-> <<l, r>>,
     body |-> <<>>, orelse |-> <<>>]
UnaryOpNode(e)             == Node("UnaryOp", "", <<e>>, <<>>, <<>>)
\* AssignmentNode(identifier, var_type, value, is_global); the type is a Type
\* record, NoType for a reassignment
AssignmentNode(x, t, v, g) ==
    [kind |-> "Assignment", name |-> x, kids |-> <<v>>, body |-> <<>>, orelse |-> <<>>,
     var_type |-> t, is_global |-> g]
\* FunctionNode(name, params, return_type, body); a parameter is [name, type]
FunctionNode(n, params, rt, body) ==
    [kind |-> "Function", name |-> n, kids |-> <<>>, body |-> body, orelse |-> <<>>,
     params |-> params, return_type |-> rt]
Param(n, t) == [name |-> n, type |-> t]
StructDefinitionNode(n, fields) ==
    [kind |-> "StructDefinition", name |-> n, fields |-> fields,
     kids |-> <<>>, body |-> <<>>, orelse |-> <<>>]
ArrayAssignmentNode(a, idx, v) == Node("ArrayAssignment", a, <<idx, v>>, <<>>, <<>>)
StructAssignmentNode(s, v) == Node("StructAssignment", s, <<v>>, <<>>, <<>>)
PrintNode(e)               == Node("Print", "", <<e>>, <<>>, <<>>)
ReturnNode(e)              == Node("Return", "", <<e>>, <<>>, <<>>)
ReturnVoidNode             == Node("Return", "", <<>>, <<>>, <<>>)
BreakNode                  == Node("Break", "", <<>>, <<>>, <<>>)
IfNode(c, t, e)            == Node("If", "", <<c>>, t, e)
WhileNode(c, b)            == Node("While", "", <<c>>, b, <<>>)

Range(s) == {s[i] : i \in DOMAIN s}

(***************************************************************************)
(* Python containers.  A dict keeps insertion order: a sequence of         *)
(* [key, val] entries with distinct keys.  A set of names is iterated in   *)
(* an order the program does not control (hash_order).                    *)
(***************************************************************************)
DictKeys(d) == {d[i].key : i \in DOMAIN d}
DictGet(d, k) == d[CHOOSE i \in DOMAIN d : d[i].key = k].val
DictSet(d, k, v) ==
    IF k \in DictKeys(d)
    THEN [i \in DOMAIN d |-> IF d[i].key = k THEN [key |-> k, val |-> v] ELSE d[i]]
    ELSE Append(d, [key |-> k, val |-> v])
\* variant: a key the dict already holds keeps its value
RECURSIVE DictUpdate_setdefault(_, _)
DictUpdate_setdefault(d, items) ==
    IF items = <<>> THEN d
    ELSE DictUpdate_setdefault(IF Head(items).key \in DictKeys(d) THEN d
                               ELSE DictSet(d, Head(items).key, Head(items).val),
                               Tail(items))
RECURSIVE DictUpdate(_, _)
DictUpdate(d, items) ==
    IF items = <<>> THEN d
    ELSE DictUpdate(DictSet(d, Head(items).key, Head(items).val), Tail(items))
DictValues(d) == [i \in DOMAIN d |-> d[i].val]

Rank(n) ==
    IF \E i \in DOMAIN hash_order : hash_order[i] = n
    THEN CHOOSE i \in DOMAIN hash_order : hash_order[i] = n
    ELSE Len(hash_order) + 1
RECURSIVE SetIteration(_)
SetIteration(S) ==
    IF S = {} THEN <<>>
    ELSE LET x == CHOOSE y \in S : \A z \in S : Rank(y) <= Rank(z)
         IN  <<x>> \o SetIteration(S \ {x})

\* every node below a node, whatever its class (the node itself included)
RECURSIVE AllNodes(_)
AllNodes(node) ==
    {node} \cup UNION {AllNodes(c) : c \in Range(node.kids) \cup Range(node.body) \cup Range(node.orelse)}

AllNodesOf(stmts) == UNION {AllNodes(s) : s \in Range(stmts)}


(***************************************************************************)
(* MODULE RESOLVER                                                         *)
(***************************************************************************)
MaxUse == 2    \* number of use statements in the compiled file

builtin_functions ==
    {"printf", "malloc", "free", "strlen", "strcpy", "strcat", "to_str",
     "array_to_str", "to_int", "to_float", "ord", "length", "print"}

\* The nodes visit_node descends into, per class.  An AssignmentNode is
\* entered through its value only; the classes without a branch of their own
\* are walked attribute by attribute (every list item, every node attribute).
VisitedChildren(node) ==
    Range(node.kids) \cup Range(node.body) \cup Range(node.orelse)

\* The names visit_node adds for one node.
VisitedName(node) ==
    IF node.kind \in {"Identifier", "Call", "StructConstructor", "ArrayAccess"}
    THEN {node.name}
    ELSE {}

RECURSIVE visit_node(_)
visit_node(node) ==
    VisitedName(node) \cup UNION {visit_node(c) : c \in VisitedChildren(node)}

\* The attribute walk of a class without its own branch also enters the
\* non-node attributes.  UnaryOpNode.operator is a TokenType member: its
\* __dict__ holds __objclass__ (the Enum class), whose __dict__ holds the
\* members again, so the walk never returns and Python raises RecursionError.
RECURSIVE visit_raises(_)
visit_raises(node) ==
    \/ node.kind = "UnaryOp"
    \/ \E c \in VisitedChildren(node) : visit_raises(c)

body_raises(func_node) == \E s \in Range(func_node.body) : visit_raises(s)

analyze_function_dependencies(func_node) ==
    LET dependencies == UNION {visit_node(s) : s \in Range(func_node.body)}
        param_names  == {param.name : param \in Range(func_node.params)}
    IN  {dep \in dependencies : dep \notin builtin_functions /\ dep \notin param_names}

\* acc = [collected, raised]; raised models the exception that unwinds the
\* whole recursion.
RECURSIVE collect_dependencies(_, _, _)
RECURSIVE collect_each(_, _, _)
collect_dependencies(symbol_name, module_symbols, acc) ==
    IF acc.raised \/ symbol_name \in acc.collected \/ symbol_name \notin DictKeys(module_symbols)
    THEN acc
    ELSE LET added == [acc EXCEPT !.collected = @ \cup {symbol_name}]
             symbol_info == DictGet(module_symbols, symbol_name)
         IN  IF symbol_info.type = "function"
             THEN IF body_raises(symbol_info.node)
                  THEN [added EXCEPT !.raised = TRUE]
                  ELSE collect_each(SetIteration(analyze_function_dependencies(symbol_info.node)),
                                    module_symbols, added)
             ELSE added

collect_each(deps, module_symbols, acc) ==
    IF deps = <<>> \/ acc.raised
    THEN acc
    ELSE LET dep == Head(deps)
         IN  collect_each(Tail(deps), module_symbols,
                 IF dep \in DictKeys(module_symbols) /\ dep \notin acc.collected
                 THEN collect_dependencies(dep, module_symbols, acc)
                 ELSE acc)

\* the loop over use_node.selected_symbols
RECURSIVE collect_selected(_, _, _)
collect_selected(selected, module_symbols, acc) ==
    IF selected = <<>> \/ acc.raised
    THEN acc
    ELSE IF Head(selected) \in DictKeys(module_symbols)
         THEN collect_selected(Tail(selected), module_symbols,
                               collect_dependencies(Head(selected), module_symbols, acc))
         ELSE [acc EXCEPT !.raised = TRUE]     \* "Simbolo nao encontrado no modulo"

Key(ns, n) == [ns |-> ns, name |-> n]

\* the entries one use statement writes: module symbol n under key Key(ns, n)
Entries(ns, names, module_symbols) ==
    [i \in DOMAIN names |-> [key |-> Key(ns, names[i]), val |-> DictGet(module_symbols, names[i])]]

\* the import table after one use statement, and whether the handler raised
handle_use_statement(use_node, imported) ==
    IF use_node.module_name \notin DOMAIN loaded_modules
    THEN [imported |-> imported, raised |-> TRUE]      \* load_module: module not found
    ELSE
    LET m == use_node.module_name
        module_symbols == loaded_modules[m]
        all_names == [i \in DOMAIN module_symbols |-> module_symbols[i].key]
    IN  IF use_node.import_all
        THEN [imported |-> DictUpdate(imported, Entries("", all_names, module_symbols)),
              raised |-> FALSE]
        ELSE IF use_node.selected_symbols # <<>>
        THEN LET r == collect_selected(use_node.selected_symbols, module_symbols,
                                       [collected |-> {}, raised |-> FALSE])
             IN  IF r.raised
                 THEN [imported |-> imported, raised |-> TRUE]
                 ELSE [imported |-> DictUpdate(imported,
                           Entries("", SetIteration(r.collected), module_symbols)),
                       raised |-> FALSE]
        ELSE [imported |-> DictUpdate(imported, Entries(m, all_names, module_symbols)),
              raised |-> FALSE]

\* LLVMCodeGenerator.__init__: the generator before generate() is called
\* _declare_external_functions: the C functions self.functions holds from the start
ExternalFunction(n, params, rt) == [key |-> n, val |-> [params |-> params, return_type |-> rt]]
external_functions ==
    << ExternalFunction("strlen", 1, "i64"), ExternalFunction("strcpy", 2, "i8*"),
       ExternalFunction("strcat", 2, "i8*"), ExternalFunction("strcmp", 2, "i32"),
       ExternalFunction("malloc", 1, "i8*"), ExternalFunction("free", 1, "void"),
       ExternalFunction("to_str", 1, "i8*"), ExternalFunction("array_to_str", 2, "i8*"),
       ExternalFunction("to_int", 1, "i64"), ExternalFunction("to_float", 1, "double"),
       ExternalFunction("char_to_str", 1, "i8*"), ExternalFunction("printf", 1, "i32") >>

GenIdle ==
    /\ gen_pc = "structs"
    /\ gen_pos = 1
    /\ struct_types = <<>>
    /\ struct_log = <<>>
    /\ gen_error = "none"
    /\ module = <<>>
    /\ current_function = ""
    /\ local_vars = <<>>
    /\ global_vars = <<>>
    /\ functions = external_functions
    /\ type_map = <<>>
    /\ break_target = 0
    /\ allocation_array = FALSE
    /\ allocated_ptrs = 0
    /\ next_block = 0
    /\ break_log = <<>>
    /\ assign_log = <<>>

\* the generated program before it is started
RunIdle ==
    /\ rt_pc = "off"
    /\ rt_frames = <<>>
    /\ rt_globals = <<>>
    /\ allocation_count = 0
    /\ allocation_ledger = <<>>
    /\ rt_heap = <<>>
    /\ rt_freed = <<>>
    /\ rt_output = <<>>

\* no call of the compiler's entry points going on: the callers of the
\* generator below have lexed, parsed and checked the file
DrvIdle ==
    /\ drv_entry = "none"
    /\ source = [lexer |-> "none", parser |-> "none"]
    /\ drv_pc = "off"
    /\ stages = <<>>
    /\ semantic_success = TRUE
    /\ error_message = <<>>
    /\ ir_code = <<>>
    /\ raised = "none"

\* no Lexer and no Parser yet
FrontIdle ==
    /\ front_pc = "off"
    /\ lexer = [source |-> <<>>, position |-> 0, line |-> 1, column |-> 1, tokens |-> <<>>,
                error |-> "none"]
    /\ lex_starts = <<>>
    /\ parser = [tokens |-> <<>>, position |-> 0, in_function_depth |-> 0,
                 defined_functions |-> {}, defined_structs |-> {}, error |-> "none"]
    /\ program = <<>>

\* the generator object as one record, and the assignment of its fields
Gen ==
    [types |-> struct_types, log |-> struct_log, error |-> gen_error, module |-> module,
     current_function |-> current_function, local_vars |-> local_vars,
     global_vars |-> global_vars, functions |-> functions, type_map |-> type_map,
     imported_symbols |-> imported_symbols, global_ast |-> ast,
     break_target |-> break_target, allocation_array |-> allocation_array,
     allocated_ptrs |-> allocated_ptrs, next_block |-> next_block,
     loop_depth |-> 0, loop_ends |-> <<>>, break_log |-> break_log,
     assign_log |-> assign_log]

SetGen(g) ==
    /\ struct_types' = g.types
    /\ struct_log' = g.log
    /\ gen_error' = g.error
    /\ module' = g.module
    /\ current_function' = g.current_function
    /\ local_vars' = g.local_vars
    /\ global_vars' = g.global_vars
    /\ functions' = g.functions
    /\ type_map' = g.type_map
    /\ break_target' = g.break_target
    /\ allocation_array' = g.allocation_array
    /\ allocated_ptrs' = g.allocated_ptrs
    /\ next_block' = g.next_block
    /\ break_log' = g.break_log
    /\ assign_log' = g.assign_log

\* the step of generate() that follows, or "raised" when the step raised
GenGoto(g, pc) == gen_pc' = IF g.error = "none" THEN pc ELSE "raised"

\* ---- the modules on disk and the use statements of the compiled file ----
\* _extract_exported_symbols: one entry per top-level function, global and struct
ExportedSymbol(stmt) ==
    [type |-> CASE stmt.kind = "Function" -> "function"
                [] stmt.kind = "Assignment" -> "variable"
                [] stmt.kind = "StructDefinition" -> "struct",
     node |-> stmt]
Exportable(stmt) ==
    \/ stmt.kind \in {"Function", "StructDefinition"}
    \/ stmt.kind = "Assignment" /\ stmt.is_global
RECURSIVE extract_exported_symbols(_)
extract_exported_symbols(statements) ==
    IF statements = <<>> THEN <<>>
    ELSE LET stmt == statements[Len(statements)]
             symbols == extract_exported_symbols(SubSeq(statements, 1, Len(statements) - 1))
         IN  IF Exportable(stmt) THEN DictSet(symbols, stmt.name, ExportedSymbol(stmt))
             ELSE symbols

FBodies ==
    { <<>>,
      <<ReturnNode(CallNode("g", <<IdentifierNode("a")>>))>>,
      <<PrintNode(IdentifierNode("base"))>>,
      <<AssignmentNode("base", NoType, NumberNode(0), FALSE)>>,
      <<AssignmentNode("z", StructType("P"),
                       StructConstructorNode("P", <<IdentifierNode("base")>>), FALSE)>>,
      <<ReturnNode(ArrayAccessNode("arr", IdentifierNode("a")))>>,
      <<ReturnNode(StructAccessNode("pt"))>>,
      <<IfNode(BinaryOpNode(IdentifierNode("a"), "LT", NumberNode(0)),
               <<ReturnNode(CallNode("h", <<>>))>>,
               <<ReturnNode(IdentifierNode("base"))>>)>>,
      <<WhileNode(IdentifierNode("a"),
                  <<PrintNode(CallNode("length", <<IdentifierNode("arr")>>)), BreakNode>>)>>,
      <<ReturnNode(UnaryOpNode(IdentifierNode("a")))>> }

GBodies ==
    { <<ReturnVoidNode>>,
      <<ReturnNode(CallNode("h", <<>>))>>,
      <<ReturnNode(BinaryOpNode(IdentifierNode("n"), "PLUS", IdentifierNode("base")))>>,
      <<PrintNode(UnaryOpNode(IdentifierNode("n")))>> }

HBodies ==
    { <<>>,
      <<PrintNode(CallNode("g", <<NumberNode(0)>>))>>,
      <<ArrayAssignmentNode("arr", NumberNode(0), CallNode("f", <<NumberNode(0)>>))>> }

FParams ==
    { <<Param("a", IntType)>>, <<Param("a", IntType), Param("base", IntType)>>,
      <<Param("a", StructType("P"))>> }

Field(n, t) == [name |-> n, type |-> t]

\* the statements of utils.nx
ModuleSources ==
    { << AssignmentNode("base", IntType, NumberNode(0), TRUE),
         AssignmentNode("arr", IntType, NumberNode(0), TRUE),
         StructDefinitionNode("P", <<Field("x", IntType)>>),
         AssignmentNode("pt", StructType("P"), StructConstructorNode("P", <<NumberNode(0)>>), TRUE),
         FunctionNode("f", fp, IntType, fb),
         FunctionNode("g", <<Param("n", IntType)>>, IntType, gb),
         FunctionNode("h", <<>>, VoidType, hb) >>
      : fp \in FParams, fb \in FBodies, gb \in GBodies, hb \in HBodies }

ModuleExports == {extract_exported_symbols(src) : src \in ModuleSources}

UseNode(m, sel, all) == [module_name |-> m, selected_symbols |-> sel, import_all |-> all]

UseNodes ==
    { UseNode("utils", sel, FALSE)
        : sel \in { <<"f">>, <<"g">>, <<"h">>, <<"base">>, <<"P">>, <<"h", "f">>,
                    <<"g", "missing">> } }
    \cup { UseNode("utils", <<>>, TRUE), UseNode("utils", <<>>, FALSE),
           UseNode("ghost", <<>>, FALSE) }

SeqsUpTo(S, n) == UNION {[1..k -> S] : k \in 1..n}

ResolverInit ==
    /\ loaded_modules \in {[utils |-> ex] : ex \in ModuleExports}
    /\ use_nodes \in SeqsUpTo(UseNodes, MaxUse)
    /\ use_pos = 1
    /\ imported_symbols = <<>>
    /\ import_error = FALSE
    /\ hash_order = <<>>
    /\ ast = <<>>
    /\ GenIdle
    /\ RunIdle
    /\ DrvIdle
    /\ FrontIdle

\* _process_imports: one iteration of its loop over the UseNode statements
ProcessImport ==
    /\ ~import_error
    /\ use_pos <= Len(use_nodes)
    /\ LET r == handle_use_statement(use_nodes[use_pos], imported_symbols)
       IN  /\ imported_symbols' = r.imported
           /\ import_error' = r.raised
           /\ use_pos' = IF r.raised THEN use_pos ELSE use_pos + 1
    /\ UNCHANGED <<loaded_modules, use_nodes, hash_order, astVars, genVars, rtVars, drvVars, frontVars>>

ResolverNext == ProcessImport

SpecResolver == ResolverInit /\ [][ResolverNext]_vars


(***************************************************************************)
(* Import closure, stated from the claim: the names a function's body       *)
(* mentions as identifier, call target, constructor name or array base.    *)
(***************************************************************************)
NamesIn(func_node) ==
    { n.name : n \in { x \in AllNodesOf(func_node.body) :
                         x.kind \in {"Identifier", "Call", "StructConstructor", "ArrayAccess"} } }
        \ (builtin_functions \cup {param.name : param \in Range(func_node.params)})

RECURSIVE LeastClosure(_, _)
LeastClosure(S, module_symbols) ==
    LET next == S \cup UNION { NamesIn(DictGet(module_symbols, f).node) \cap DictKeys(module_symbols)
                               : f \in {x \in S : DictGet(module_symbols, x).type = "function"} }
    IN  IF next = S THEN S ELSE LeastClosure(next, module_symbols)

FirstUseSelectsExports ==
    /\ use_nodes[1].module_name \in DOMAIN loaded_modules
    /\ ~use_nodes[1].import_all
    /\ use_nodes[1].selected_symbols # <<>>
    /\ Range(use_nodes[1].selected_symbols)
          \subseteq DictKeys(loaded_modules[use_nodes[1].module_name])

FirstUseHandled == use_pos = 2 \/ (import_error /\ use_pos = 1)

UnprefixedKeys(S) == {Key("", s) : s \in S}

\* C1: after `use M select S1..Sn` with every Si exported by M, the keys of
\* the import table are exactly the least set that contains S1..Sn and is
\* closed under "an export of M named in the body of a function of the set".
ClaimC1_ImportClosure ==
    (FirstUseSelectsExports /\ FirstUseHandled) =>
        /\ use_pos = 2      \* the statement did not raise
        /\ DictKeys(imported_symbols) =
             UnprefixedKeys(LeastClosure(Range(use_nodes[1].selected_symbols),
                                         loaded_modules[use_nodes[1].module_name]))


(***************************************************************************)
(* CODE GENERATOR: struct table                                            *)
(*                                                                         *)
(* A lowered type is a tuple: <<"i64">>, <<"i8*">>, <<"struct", layout>>,  *)
(* <<"ptr", layout>>, <<"array", layout, n>>.  LLVM literal struct types   *)
(* are structural, so a field of struct type holds the layout its struct    *)
(* had in the table at that moment.  st = [types, log, error].             *)
(***************************************************************************)
OpaqueLayout == <<>>            \* ir.LiteralStructType([])

\* an exception leaves the generator: the first one raised is the one recorded
Raise(g, e) == IF g.error = "none" THEN [g EXCEPT !.error = e] ELSE g

\* self.struct_types[n] = layout; how is the statement that wrote it
\* (an exception raised earlier has unwound the call: nothing is written)
Insert(st, n, layout, how) ==
    IF st.error # "none" THEN st
    ELSE [st EXCEPT !.types = DictSet(st.types, n, layout),
                    !.log = Append(st.log, [name |-> n, how |-> how, layout |-> layout])]

\* _convert_type: the lowered type, and the table (an undefined struct named
\* by a sized array or a reference gets an opaque entry)
convert_type(ml_type, st) ==
    CASE ml_type.t = "int"    -> [ll |-> <<"i64">>, st |-> st]
      [] ml_type.t = "string" -> [ll |-> <<"i8*">>, st |-> st]
      [] ml_type.t = "void"   -> [ll |-> <<"void">>, st |-> st]
      [] ml_type.t = "array" /\ ml_type.name = "int" ->
            [ll |-> IF ml_type.size # 0 THEN <<"array", <<"i64">>, ml_type.size>>
                    ELSE <<"ptr", <<"i64">>>>,
             st |-> st]
      [] ml_type.t = "array" /\ ml_type.name # "int" /\ ml_type.size # 0 ->
            IF ml_type.name \in DictKeys(st.types)
            THEN [ll |-> <<"array", DictGet(st.types, ml_type.name), ml_type.size>>, st |-> st]
            ELSE [ll |-> <<"array", OpaqueLayout, ml_type.size>>,
                  st |-> Insert(st, ml_type.name, OpaqueLayout, "opaque")]
      [] ml_type.t = "array" /\ ml_type.name # "int" /\ ml_type.size = 0 ->
            IF ml_type.name \in DictKeys(st.types)
            THEN [ll |-> <<"ptr", <<"ptr", DictGet(st.types, ml_type.name)>>>>, st |-> st]
            ELSE [ll |-> <<"void">>, st |-> Raise(st, "TypeError")]
      [] ml_type.t = "ref"    ->
            IF ml_type.name \in DictKeys(st.types)
            THEN [ll |-> <<"ptr", DictGet(st.types, ml_type.name)>>, st |-> st]
            ELSE [ll |-> <<"ptr", OpaqueLayout>>,
                  st |-> Insert(st, ml_type.name, OpaqueLayout, "opaque")]
      [] ml_type.t = "struct" ->
            IF ml_type.name \in DictKeys(st.types)
            THEN [ll |-> <<"ptr", DictGet(st.types, ml_type.name)>>, st |-> st]
            ELSE [ll |-> <<"void">>, st |-> Raise(st, "TypeError")]
      [] OTHER -> [ll |-> <<"void">>, st |-> Raise(st, "TypeError")]

\* the field loop of _process_struct_definition: acc = [lls, st]
RECURSIVE definition_fields(_, _)
definition_fields(fields, acc) ==
    IF fields = <<>> THEN acc
    ELSE LET field_type == Head(fields).type
             st == acc.st
             r == IF field_type.t = "ref"
                  THEN [ll |-> <<"i8*">>, st |-> st]
                  ELSE IF field_type.t = "struct"
                  THEN LET st1 == IF field_type.name \notin DictKeys(st.types)
                                  THEN Insert(st, field_type.name, OpaqueLayout, "opaque")
                                  ELSE st
                       IN  [ll |-> <<"struct", DictGet(st1.types, field_type.name)>>, st |-> st1]
                  ELSE convert_type(field_type, st)
         IN  definition_fields(Tail(fields), [lls |-> Append(acc.lls, r.ll), st |-> r.st])

process_struct_definition(node, st) ==
    LET r == definition_fields(node.fields, [lls |-> <<>>, st |-> st])
    IN  Insert(r.st, node.name, r.lls, "definition")

\* the field loop of _process_struct_with_placeholders
RECURSIVE placeholder_fields(_, _)
placeholder_fields(fields, acc) ==
    IF fields = <<>> THEN acc
    ELSE LET field_type == Head(fields).type
             st == acc.st
             r == IF field_type.t = "struct" /\ field_type.name \notin DictKeys(st.types)
                  THEN [ll |-> <<"i8*">>, st |-> st]
                  ELSE convert_type(field_type, st)
         IN  placeholder_fields(Tail(fields), [lls |-> Append(acc.lls, r.ll), st |-> r.st])

process_struct_with_placeholders(struct_def, st) ==
    LET r == placeholder_fields(struct_def.fields, [lls |-> <<>>, st |-> st])
    IN  Insert(r.st, struct_def.name, r.lls, "placeholders")

\* variant: no field is a dependency
get_struct_dependencies_none(struct_def) == {}
get_struct_dependencies(struct_def) ==
    {f.type.name : f \in {x \in Range(struct_def.fields) : x.type.t = "struct"}}

\* next((s for s in struct_definitions if s.name == dep_name), None)
FirstNamed(struct_definitions, n) ==
    LET idx == {i \in DOMAIN struct_definitions : struct_definitions[i].name = n}
    IN  IF idx = {} THEN <<>>
        ELSE <<struct_definitions[CHOOSE i \in idx : \A j \in idx : i <= j]>>

\* process_struct and its loop over the dependencies.
\* ps = [processed, processing, st]
RECURSIVE process_struct(_, _, _)
RECURSIVE process_deps(_, _, _)
process_struct(struct_def, struct_definitions, ps) ==
    IF struct_def.name \in ps.processed THEN ps
    ELSE IF struct_def.name \in ps.processing
    THEN [processed  |-> ps.processed \cup {struct_def.name},
          processing |-> ps.processing \ {struct_def.name},
          st |-> process_struct_with_placeholders(struct_def, ps.st)]
    ELSE LET entered == [ps EXCEPT !.processing = @ \cup {struct_def.name}]
             after == process_deps(SetIteration(get_struct_dependencies(struct_def)),
                                   struct_definitions, entered)
         IN  [processed  |-> after.processed \cup {struct_def.name},
              processing |-> after.processing \ {struct_def.name},
              st |-> process_struct_definition(struct_def, after.st)]

process_deps(deps, struct_definitions, ps) ==
    IF deps = <<>> THEN ps
    ELSE LET dep_name == Head(deps)
             dep_struct == FirstNamed(struct_definitions, dep_name)
         IN  process_deps(Tail(deps), struct_definitions,
                 IF dep_struct # <<>>
                 THEN process_struct(dep_struct[1], struct_definitions, ps)
                 ELSE ps)

RECURSIVE process_all_structs(_, _, _)
process_all_structs(rest, struct_definitions, ps) ==
    IF rest = <<>> THEN ps
    ELSE process_all_structs(Tail(rest), struct_definitions,
                             process_struct(Head(rest), struct_definitions, ps))

process_structs_in_dependency_order(struct_definitions, st) ==
    process_all_structs(struct_definitions, struct_definitions,
                        [processed |-> {}, processing |-> {}, st |-> st]).st


\* generate(), first step: collect the struct definitions of the file and of
\* the import table, and process them
StructDefinitionsOf(statements) ==
    SelectSeq(statements, LAMBDA stmt : stmt.kind = "StructDefinition")
ImportedStructs ==
    LET structs == SelectSeq(imported_symbols, LAMBDA e : e.val.type = "struct")
    IN  [i \in DOMAIN structs |-> structs[i].val.node]
struct_definitions == StructDefinitionsOf(ast) \o ImportedStructs

ImportsDone == ~import_error /\ use_pos > Len(use_nodes)

\* generate(), its struct pass
generate_structs ==
    /\ gen_pc = "structs"
    /\ LET st == process_structs_in_dependency_order(struct_definitions, Gen)
       IN  SetGen(st) /\ GenGoto(st, "declare")
    /\ UNCHANGED <<resolverVars, astVars, gen_pos, rtVars, drvVars, frontVars>>

\* the generator is called once the imports are resolved
GenStructs == ImportsDone /\ generate_structs

\* ---- struct sets: A (two fields), B, C, and an optional second A ----
AFieldTypes == {IntType, StructType("B"), StructType("C"), StructType("A"),
                ReferenceType("B"), ArrayType("C", 2), StructType("U")}
BFieldTypes == {IntType, StructType("C"), StructType("A"), ReferenceType("A"), ArrayType("A", 2)}
CFieldTypes == {IntType, StructType("A"), StructType("B"), ArrayType("B", 2)}

Permutations3 == { p \in [1..3 -> 1..3] : \A i, j \in 1..3 : p[i] = p[j] => i = j }

StructSets ==
    { [i \in 1..3 |-> << StructDefinitionNode("A", <<Field("x", ta1), Field("y", ta2)>>),
                         StructDefinitionNode("B", <<Field("x", tb)>>),
                         StructDefinitionNode("C", <<Field("x", tc)>>) >>[p[i]]]
      : ta1 \in AFieldTypes, ta2 \in {IntType, StructType("C"), ReferenceType("A")},
        tb \in BFieldTypes, tc \in CFieldTypes, p \in Permutations3 }

StructsInit ==
    /\ \E defs \in StructSets, k \in 0..3, again \in BOOLEAN :
          \* the first k definitions are in the file, the others in module utils
          /\ ast = SubSeq(defs, 1, k)
          /\ loaded_modules =
                [utils |-> extract_exported_symbols(
                     SubSeq(defs, k + 1, 3)
                     \o (IF again THEN <<StructDefinitionNode("A", <<Field("z", IntType)>>)>>
                         ELSE <<>>))]
    /\ use_nodes \in {<<UseNode("utils", <<>>, TRUE)>>, <<UseNode("utils", <<"A">>, FALSE)>>}
    /\ use_pos = 1
    /\ imported_symbols = <<>>
    /\ import_error = FALSE
    /\ hash_order \in {<<"B", "C">>, <<"C", "B">>}
    /\ GenIdle
    /\ RunIdle
    /\ DrvIdle
    /\ FrontIdle

StructsNext == ProcessImport \/ GenStructs

SpecStructs == StructsInit /\ [][StructsNext]_vars


(***************************************************************************)
(* Struct ordering                                                         *)
(***************************************************************************)
\* the definition generate() uses for a name: the first one in the list
Defined(n) == FirstNamed(struct_definitions, n) # <<>>

\* B is reachable from A through non-reference struct fields
RECURSIVE ValueReach(_)
ValueReach(S) ==
    LET next == S \cup UNION { {f.type.name : f \in {x \in Range(FirstNamed(struct_definitions, a)[1].fields)
                                                       : x.type.t = "struct"}}
                               : a \in {x \in S : Defined(x)} }
    IN  IF next = S THEN S ELSE ValueReach(next)
ValueCycle ==
    \E d \in Range(struct_definitions) :
        \E f \in Range(d.fields) :
            f.type.t = "struct" /\ d.name \in ValueReach({f.type.name})

DefinitionIndex(n) ==
    {i \in DOMAIN struct_log : struct_log[i].name = n /\ struct_log[i].how = "definition"}

\* C4: when no cycle runs through non-reference fields, every definition A
\* with a non-reference field of struct type B (B defined in the file or
\* imported) is written to the struct table after B's definition was written.
ClaimC4_StructOrder ==
    (gen_pc # "structs" /\ ~ValueCycle) =>
        \A a \in Range(struct_definitions) :
            \A f \in Range(a.fields) :
                (f.type.t = "struct" /\ Defined(f.type.name)) =>
                    \E j \in DefinitionIndex(a.name) :
                        \E i \in DefinitionIndex(f.type.name) : i < j

\* a file in which A comes textually before the B it holds by value
WitnessC4_StructOrder ==
    /\ gen_pc = "declare"
    /\ ~ValueCycle
    /\ \E i, j \in DOMAIN struct_definitions :
          /\ i < j
          /\ struct_definitions[i].name = "A"
          /\ struct_definitions[j].name = "B"
          /\ \E f \in Range(struct_definitions[i].fields) :
                f.type.t = "struct" /\ f.type.name = "B"
    /\ \E i, j \in DOMAIN struct_log :
          i < j /\ struct_log[i].name = "B" /\ struct_log[j].name = "A"


(***************************************************************************)
(* CODE GENERATOR: lowering                                                *)
(*                                                                         *)
(* The generator is the record g (the fields of LLVMCodeGenerator).  The   *)
(* IR of a function is the list of its instructions in the order the       *)
(* builder wrote them; a block starts at its "entry" or "label"            *)
(* instruction.  Instructions work on a value stack that stands for the    *)
(* SSA values: an expression leaves one value.                            *)
(***************************************************************************)
Instr(op, s, n, m) == [op |-> op, s |-> s, n |-> n, m |-> m]

memory_tracking == TRUE
Terminators == {"br", "cbr", "ret"}
NoBlock == 0                    \* break_target is None

\* the lowered class of a value: what _generate_expression's result .type is
LLTy(ml_type) ==
    CASE ml_type.t = "int" -> "i64"
      [] ml_type.t = "string" -> "i8*"
      [] ml_type.t = "void" -> "void"
      [] OTHER -> "ptr"

Blocks(g) == DictGet(g.module, g.current_function)

\* self.builder.<instruction>(...)
Emit(g, i) ==
    IF g.error # "none" THEN g
    ELSE [g EXCEPT !.module = DictSet(g.module, g.current_function, Append(Blocks(g), i))]

\* self.builder.block.is_terminated
is_terminated(g) ==
    LET b == Blocks(g)
        starts == {i \in DOMAIN b : b[i].op \in {"entry", "label"}}
        start == IF starts = {} THEN 0 ELSE CHOOSE i \in starts : \A j \in starts : j <= i
    IN  \E i \in (start + 1)..Len(b) : b[i].op \in Terminators

\* branch / cbranch / ret: llvmlite refuses a second terminator in a block
EmitTerminator(g, i) ==
    IF g.error # "none" THEN g
    ELSE IF is_terminated(g) THEN Raise(g, "AssertionError")
    ELSE Emit(g, i)

\* current_function.append_basic_block: n fresh blocks, numbered next_block+1..
append_basic_blocks(g, n) == [g EXCEPT !.next_block = @ + n]
position_at_end(g, name, block) == Emit(g, Instr("label", name, block, 0))

\* _track_allocation
track_allocation(g) ==
    IF g.error # "none" \/ ~memory_tracking THEN g
    ELSE IF g.current_function # "" /\ g.allocation_array
    THEN Emit(g, Instr("track", "", 0, 0))
    ELSE [g EXCEPT !.allocated_ptrs = @ + 1]

\* _concatenate_strings: strlen, malloc, strcpy, strcat
concatenate_strings(g) == Emit(g, Instr("malloc", "concatenate_strings", 2, 0))

ImportedKey(n) == Key("", n)


\* the names self.module.globals holds: the external C functions, the
\* globals and functions declared so far and, once main exists, the ledger
ExternalNames ==
    {"printf", "malloc", "free", "strlen", "strcpy", "strcat", "strcmp", "sprintf",
     "to_str_int", "to_str_float", "array_to_str_int", "array_to_str_float",
     "to_int", "to_float", "char_to_str", "fmod"}
ModuleGlobals(g) ==
    ExternalNames \cup DictKeys(g.global_vars) \cup DictKeys(g.module)
        \cup (IF "main" \in DictKeys(g.module) THEN {"allocation_array", "allocation_count"}
              ELSE {})

\* the messages of the semantic errors the generator raises
SemNotVariable        == "NoxySemanticError: imported but not a variable"
SemUndeclaredVariable == "NoxySemanticError: variable not declared"
SemNotFunction        == "NoxySemanticError: imported but not a function"
SemUndeclaredFunction == "NoxySemanticError: function not declared"
SemBreakOutsideLoop   == "NoxySemanticError: break outside a loop"

\* the classes with a __post_init__ that calls ASTNode.__init__: their nodes have
\* the attributes line and column
InitialisedClasses ==
    {"Number", "Float", "FString", "Array", "Zeros", "ArrayAccess", "Identifier", "Call",
     "StructAccess", "Break"}

\* LLVMCodeGenerator._semantic_error reads node.line before it raises: a
\* node of a class without the attribute makes the read raise instead
AttributeError == "AttributeError: object has no attribute 'line'"

\* the exceptions CodeGenContext.__exit__ makes of an exception that is no
\* NoxyError: NoxyCodeGenError with the line and column of the node of the
\* context, NoxyCodeGenError without them for a node that has no location
CodeGenWrapped == "NoxyCodeGenError"
CodeGenLocated == "NoxyCodeGenError: line, column"

\* the exceptions of the generator that are instances of NoxyError
GeneratorNoxyErrors ==
    {SemNotVariable, SemUndeclaredVariable, SemNotFunction, SemUndeclaredFunction,
     SemBreakOutsideLoop, CodeGenWrapped, CodeGenLocated}

\* CodeGenContext.__exit__ around a block entered in state g that left the
\* generator in state g1; the parser gives every CallNode the location of
\* its name (the only `with self._with_context(node)` is the one of a CallNode)
with_context(node, g, g1) ==
    IF g.error = "none" /\ g1.error \notin GeneratorNoxyErrors \cup {"none"}
    THEN [g1 EXCEPT !.error = IF node.kind = "Call" THEN CodeGenLocated ELSE CodeGenWrapped]
    ELSE g1

\* the exceptions of the built-in branches of a CallNode and of
\* IRBuilder.call for a call that has fewer arguments than the function
LengthNameError == "NameError: Função 'length' requer um argumento"
CallIndexError  == "IndexError: list index out of range"

semantic_error(g, message, node) ==
    IF node.kind \in InitialisedClasses THEN Raise(g, message) ELSE Raise(g, AttributeError)


\* the exception of the BinaryOpNode branch for `+` with one string operand
PlusTypeError == "TypeError: Operação + para strings requer que ambos os operandos sejam strings"

\* the exception of _declare_global_variable for a global declared before
\* with a type of another class
RedeclarationTypeError == "TypeError: Redeclaração de global com tipo diferente"

TypeOf(g, n) == IF n \in DictKeys(g.type_map) THEN DictGet(g.type_map, n) ELSE NoType

\* _declare_global_variable
declare_global_variable(node, g) ==
    IF g.error # "none" THEN g
    ELSE IF node.name \in DictKeys(g.global_vars)
    THEN LET existing_type == TypeOf(g, node.name)
         IN  IF node.var_type # NoType /\ existing_type # NoType
                  /\ existing_type.t # node.var_type.t
             THEN Raise(g, RedeclarationTypeError)
             ELSE IF existing_type = NoType /\ node.var_type # NoType
             THEN [g EXCEPT !.type_map = DictSet(@, node.name, node.var_type)]
             ELSE g
    ELSE LET g1 == convert_type(node.var_type, g).st
         IN  IF g1.error # "none" THEN g1
             ELSE IF node.name \in ModuleGlobals(g1) THEN Raise(g1, "DuplicatedNameError")
             ELSE [g1 EXCEPT !.global_vars = DictSet(@, node.name, LLTy(node.var_type)),
                             !.type_map = DictSet(@, node.name, node.var_type)]

\* the parameter loop of _declare_function
RECURSIVE declare_params(_, _)
declare_params(params, g) ==
    IF params = <<>> \/ g.error # "none" THEN g
    ELSE declare_params(Tail(params),
             IF Head(params).type.t = "ref" THEN g
             ELSE convert_type(Head(params).type, g).st)

\* a declaration pass that leaves the functions out
declare_function_skipped(node, g) == g

\* _declare_function
declare_function(node, g) ==
    IF g.error # "none" THEN g
    ELSE LET g1 == declare_params(node.params, g)
             g2 == IF node.return_type.t = "ref" THEN g1
                   ELSE convert_type(node.return_type, g1).st
         IN  IF g2.error # "none" THEN g2
             ELSE IF node.name \in ModuleGlobals(g2) THEN Raise(g2, "DuplicatedNameError")
             ELSE [g2 EXCEPT
                     !.functions = DictSet(@, node.name,
                         [params |-> Len(node.params), return_type |-> LLTy(node.return_type)]),
                     !.module = DictSet(@, node.name, <<>>),
                     !.type_map = DictSet(@, node.name, Type("function", node.name, 0))]

Value(g, ty) == [g |-> g, ty |-> ty]

\* The methods of the generator call one another recursively; call(m, x, g)
\* is the call self.m(x) in generator state g, and returns Value(g', type of
\* the result).  The loops over a list of nodes are methods of their own.
RECURSIVE call(_, _, _)
Expression(node, g)          == call("_generate_expression", node, g)
Statement(node, g)           == call("_generate_statement", node, g).g
Statements(stmts, g)         == call("statements", stmts, g).g
Arguments(args, g)           == call("arguments", args, g).g
FStringParts(parts, g)       == call("fstring_parts", parts, g).g
ConstructorFields(fields, args, g) ==
    call("constructor_fields", [fields |-> fields, args |-> args], g).g

\* a list of expressions, lowered left to right
generate_arguments(args, g) ==
    IF args = <<>> THEN g
    ELSE Arguments(Tail(args), Expression(Head(args), g).g)

\* _generate_fstring, first loop: every part becomes a string value
generate_fstring_parts(parts, g) ==
    IF parts = <<>> THEN g
    ELSE FStringParts(Tail(parts),
             IF Head(parts).kind = "str"
             THEN Emit(g, Instr("string", "", 0, 0))
             ELSE Emit(Expression(Head(parts), g).g, Instr("convert_to_string", "", 0, 0)))

\* _generate_fstring, second loop: len(parts) - 1 concatenations
RECURSIVE concatenate_parts(_, _)
concatenate_parts(n, g) ==
    IF n = 0 THEN g ELSE concatenate_parts(n - 1, concatenate_strings(g))

generate_fstring(node, g) ==
    IF node.kids = <<>> THEN Emit(g, Instr("string", "", 0, 0))
    ELSE concatenate_parts(Len(node.kids) - 1, FStringParts(node.kids, g))

\* the load of a declared global
load_global(name, g) ==
    IF g.error # "none" THEN Value(g, "void")
    ELSE Value(Emit(g, Instr("load_global", name, 0, 0)), DictGet(g.global_vars, name))

\* IdentifierNode branch of _generate_expression, for a name without a dot
generate_identifier(node, g) ==
    IF node.name \in DictKeys(g.local_vars)
    THEN Value(Emit(g, Instr("load_local", node.name, 0, 0)), DictGet(g.local_vars, node.name))
    ELSE IF node.name \in DictKeys(g.global_vars)
    THEN load_global(node.name, g)
    ELSE IF ImportedKey(node.name) \in DictKeys(g.imported_symbols)
    THEN IF DictGet(g.imported_symbols, ImportedKey(node.name)).type = "variable"
         THEN load_global(node.name,
                  declare_global_variable(
                      DictGet(g.imported_symbols, ImportedKey(node.name)).node, g))
         ELSE Value(semantic_error(g, SemNotVariable, node), "void")
    ELSE Value(semantic_error(g, SemUndeclaredVariable, node), "void")

\* CallNode branch of _generate_expression, for a user function (the
\* built-in names ord, length, to_str, ... have branches of their own, which
\* the programs lowered here do not reach)
generate_call(node, g) ==
    IF node.name = "length"
    THEN IF node.kids = <<>> THEN Value(Raise(g, LengthNameError), "void")
         ELSE Value(Expression(node.kids[1], g).g, "i64")
    ELSE IF node.name \in DictKeys(g.functions)
    THEN LET g1 == Arguments(node.kids, g)
         IN  Value(with_context(node, g1,
                       IF Len(node.kids) < DictGet(g.functions, node.name).params
                       THEN Raise(g1, CallIndexError)
                       ELSE Emit(g1, Instr("call", node.name, Len(node.kids), 0))),
                   DictGet(g.functions, node.name).return_type)
    ELSE IF ImportedKey(node.name) \in DictKeys(g.imported_symbols)
    THEN IF DictGet(g.imported_symbols, ImportedKey(node.name)).type = "function"
         THEN Value(Raise(g, "KeyError"), "void")      \* self.functions[simple_function_name]
         ELSE Value(semantic_error(g, SemNotFunction, node), "void")
    ELSE Value(semantic_error(g, SemUndeclaredFunction, node), "void")

\* BinaryOpNode branch of _generate_expression, once both operands are lowered
binary_op(operator, left_ty, right) ==
    IF right.g.error # "none" THEN Value(right.g, "void")
    ELSE IF operator = "PLUS" /\ (left_ty = "i8*" \/ right.ty = "i8*")
    THEN IF left_ty # "i8*" \/ right.ty # "i8*"
         THEN Value(Raise(right.g, PlusTypeError), "void")
         ELSE Value(track_allocation(Emit(right.g, Instr("malloc", "plus", 2, 0))), "i8*")
    ELSE Value(Emit(right.g, Instr("binop", operator, 0, 0)),
               IF operator \in {"GT", "LT", "GTE", "LTE", "EQ", "NEQ"} THEN "i1"
               ELSE IF left_ty = "double" \/ right.ty = "double" THEN "double" ELSE "i64")

right_operand(node, left) == binary_op(node.operator, left.ty, Expression(node.kids[2], left.g))

generate_binary_op(node, g) == right_operand(node, Expression(node.kids[1], g))

\* the first local definition of the struct, else the first imported one
StructInfo(struct_name, g) ==
    LET local == SelectSeq(g.global_ast,
                     LAMBDA stmt : stmt.kind = "StructDefinition" /\ stmt.name = struct_name)
        imported == SelectSeq(g.imported_symbols,
                     LAMBDA e : e.val.type = "struct" /\ e.key.name = struct_name)
    IN  IF local # <<>> THEN <<local[1]>>
        ELSE IF imported # <<>> THEN <<imported[1].val.node>>
        ELSE <<>>

\* the field loop of _generate_struct_constructor
constructor_fields(fields, args, g) ==
    IF fields = <<>> \/ args = <<>> \/ g.error # "none" THEN g
    ELSE ConstructorFields(Tail(fields), Tail(args),
             Emit(Expression(Head(args), convert_type(Head(fields).type, g).st).g,
                  Instr("store_field", "", 0, 0)))

\* _generate_struct_constructor, once the struct type is in the table
construct(node, struct_info, g) ==
    IF g.error # "none" THEN Value(g, "void")
    ELSE IF struct_info = <<>>
    THEN Value(Raise(track_allocation(Emit(g, Instr("malloc", "struct", 0, 0))), "NameError"),
               "void")
    ELSE Value(ConstructorFields(struct_info[1].fields, node.kids,
                   track_allocation(Emit(g, Instr("malloc", "struct", 0, 0)))), "ptr")

\* _generate_struct_constructor
generate_struct_constructor(node, g) ==
    construct(node, StructInfo(node.name, g),
        IF node.name \in DictKeys(g.types) THEN g
        ELSE IF ImportedKey(node.name) \in DictKeys(g.imported_symbols)
        THEN IF DictGet(g.imported_symbols, ImportedKey(node.name)).type = "struct"
             THEN process_struct_definition(
                      DictGet(g.imported_symbols, ImportedKey(node.name)).node, g)
             ELSE Raise(g, "NameError")
        ELSE Raise(g, "NameError"))

\* _generate_expression
generate_expression(node, g) ==
    IF g.error # "none" THEN Value(g, "void")
    ELSE CASE node.kind = "Number" -> Value(Emit(g, Instr("const", "", node.value, 0)), "i64")
           [] node.kind = "Float" ->
                Value(Emit(g, Instr("const", "double", node.value, 0)), "double")
           [] node.kind = "Boolean" ->
                Value(Emit(g, Instr("const", "i1", IF node.value THEN 1 ELSE 0, 0)), "i1")
           [] node.kind = "String" -> Value(Emit(g, Instr("string", "", 0, 0)), "i8*")
           [] node.kind = "FString" -> Value(generate_fstring(node, g), "i8*")
           [] node.kind = "Zeros" ->
                Value(track_allocation(Emit(g, Instr("malloc", "zeros", 0, 0))), "ptr")
           [] node.kind = "Identifier" -> generate_identifier(node, g)
           [] node.kind = "Call" -> generate_call(node, g)
           [] node.kind = "BinaryOp" -> generate_binary_op(node, g)
           [] node.kind = "UnaryOp" ->
                Value(Emit(Expression(node.kids[1], g).g, Instr("not", "", 0, 0)), "i1")
           [] node.kind = "StructConstructor" -> generate_struct_constructor(node, g)
           [] OTHER -> Value(Raise(g, "NotImplementedError"), "void")

\* builder.store(value, slot): llvmlite refuses a value whose type is not
\* the slot's pointee.  The pointer types (structs, references, arrays) are
\* one class here, "ptr"; a pointer stored as a string was bitcast to i8*.
StoreTypeError == "TypeError: cannot store: mismatching pointer types"

builder_store(value, target_type, slot_ty, i) ==
    IF value.g.error # "none" THEN value.g
    ELSE IF slot_ty # (IF target_type.t = "string" /\ value.ty = "ptr" THEN "i8*" ELSE value.ty)
    THEN Raise(value.g, StoreTypeError)
    ELSE Emit(value.g, i)

\* the store of a value into a global, by declared type (arrays are copied
\* element by element, size elements)
store_global(node_name, target_type, value) ==
    IF value.g.error # "none" THEN value.g
    ELSE IF target_type.t = "array"
    THEN Emit(value.g, Instr("copy_elements", node_name, target_type.size, 0))
    ELSE builder_store(value, target_type, DictGet(value.g.global_vars, node_name),
                       Instr("store_global", node_name, 0, 0))

\* the declaration of a local: alloca, local_vars, type_map
new_local(node, g) ==
    [Emit(convert_type(node.var_type, g).st, Instr("alloca", node.name, 0, 0))
       EXCEPT !.local_vars = DictSet(@, node.name, LLTy(node.var_type)),
              !.type_map = DictSet(@, node.name, node.var_type)]

\* _generate_assignment, after the value is lowered: a reassignment, or a
\* new local
store_value(node, value) ==
    IF value.g.error # "none" THEN value.g
    ELSE IF node.var_type = NoType
    THEN IF node.name \in DictKeys(value.g.local_vars)
         THEN builder_store(value, NoType, DictGet(value.g.local_vars, node.name),
                            Instr("store_local", node.name, 0, 0))
         ELSE IF node.name \in DictKeys(value.g.global_vars)
         THEN store_global(node.name, TypeOf(value.g, node.name), value)
         ELSE semantic_error(value.g, SemUndeclaredVariable, node)
    ELSE builder_store(Value(new_local(node, value.g), value.ty), NoType, LLTy(node.var_type),
                       Instr("store_local", node.name, 0, 0))

\* the entry of assign_log for a reassignment whose value was lowered in
\* state g, with result g1: what the generator knew, what it wrote, what it
\* raised (history, read by no lowering step)
log_assignment(node, g, g1) ==
    IF node.var_type # NoType \/ g.error # "none" THEN g1
    ELSE [g1 EXCEPT !.assign_log =
             Append(@, [name |-> node.name,
                        function |-> g.current_function,
                        locals |-> DictKeys(g.local_vars),
                        globals |-> DictKeys(g.global_vars),
                        written |-> SubSeq(Blocks(g1), Len(Blocks(g)) + 1, Len(Blocks(g1))),
                        raised |-> g1.error,
                        locals_after |-> DictKeys(g1.local_vars),
                        globals_after |-> DictKeys(g1.global_vars)])]

assign(node, value) == log_assignment(node, value.g, store_value(node, value))

\* _generate_assignment
generate_assignment(node, g) ==
    IF node.is_global /\ node.var_type # NoType /\ node.name \in DictKeys(g.global_vars)
    THEN store_global(node.name, node.var_type,
             Expression(node.kids[1],
                 IF node.var_type.t = "string" THEN g
                 ELSE IF node.var_type.t = "array"
                 THEN convert_type(IF node.var_type.name = "int" THEN IntType
                                   ELSE StructType(node.var_type.name), g).st
                 ELSE convert_type(node.var_type, g).st))
    ELSE assign(node,
             Expression(node.kids[1],
                 IF node.var_type # NoType THEN convert_type(node.var_type, g).st ELSE g))

\* _generate_return
generate_return(node, g) ==
    IF node.kids # <<>>
    THEN EmitTerminator(Expression(node.kids[1], g).g, Instr("ret", "", 1, 0))
    ELSE IF g.current_function # "main"
            /\ DictGet(g.functions, g.current_function).return_type = "void"
    THEN EmitTerminator(g, Instr("ret", "", 0, 0))
    ELSE EmitTerminator(Emit(g, Instr("const", "", 0, 0)), Instr("ret", "", 1, 0))

\* _generate_break
generate_break(node, g) ==
    IF g.break_target # NoBlock
    THEN EmitTerminator(g, Instr("br", "break", g.break_target, 0))
    ELSE semantic_error(g, SemBreakOutsideLoop, node)

\* for stmt in <list>: self._generate_statement(stmt)
generate_block(stmts, g) ==
    IF stmts = <<>> \/ g.error # "none" THEN g
    ELSE Statements(Tail(stmts), Statement(Head(stmts), g))

\* if not self.builder.block.is_terminated: self.builder.branch(block)
branch_if_open(g, block) ==
    IF g.error # "none" \/ is_terminated(g) THEN g
    ELSE EmitTerminator(g, Instr("br", "", block, 0))

\* _generate_if, after the condition: blocks then, endif and (with an else
\* branch) else are numbered base+1, base+2, base+3
if_branches(node, base, g) ==
    position_at_end(
        IF node.orelse # <<>>
        THEN branch_if_open(
                 Statements(node.orelse,
                     position_at_end(
                         branch_if_open(
                             Statements(node.body,
                                 position_at_end(
                                     EmitTerminator(g, Instr("cbr", "", base + 1, base + 3)),
                                     "then", base + 1)),
                             base + 2),
                         "else", base + 3)),
                 base + 2)
        ELSE branch_if_open(
                 Statements(node.body,
                     position_at_end(EmitTerminator(g, Instr("cbr", "", base + 1, base + 2)),
                                     "then", base + 1)),
                 base + 2),
        "endif", base + 2)

after_condition(node, g) ==
    if_branches(node, g.next_block, append_basic_blocks(g, IF node.orelse # <<>> THEN 3 ELSE 2))

\* _generate_if
generate_if(node, g) == after_condition(node, Expression(node.kids[1], g).g)

\* _generate_while, its last two statements: the break target is restored
\* and the builder moves to while_end (an exception in the body skips both)
end_while_target_kept(g, old_break_target, end_block) ==
    IF g.error # "none" THEN g ELSE position_at_end(g, "while_end", end_block)

\* variant: the loop leaves no break target behind
end_while_target_cleared(g, old_break_target, end_block) ==
    IF g.error # "none" THEN g
    ELSE position_at_end([g EXCEPT !.break_target = NoBlock], "while_end", end_block)

end_while(g, old_break_target, end_block) ==
    IF g.error # "none" THEN g
    ELSE position_at_end([g EXCEPT !.break_target = old_break_target], "while_end", end_block)

\* _generate_while: blocks while_cond, while_body, while_end are numbered
\* base+1, base+2, base+3
generate_while(node, g) ==
    end_while(
        branch_if_open(
            Statements(node.body,
                position_at_end(
                    EmitTerminator(
                        Expression(node.kids[1],
                            position_at_end(
                                EmitTerminator(
                                    [append_basic_blocks(g, 3)
                                        EXCEPT !.break_target = g.next_block + 3],
                                    Instr("br", "", g.next_block + 1, 0)),
                                "while_cond", g.next_block + 1)).g,
                        Instr("cbr", "", g.next_block + 2, g.next_block + 3)),
                    "while_body", g.next_block + 2)),
            g.next_block + 1),
        g.break_target, g.next_block + 3)

\* the entry of break_log for a BreakNode lowered in state g with result g1
log_break(g, g1) ==
    [g1 EXCEPT !.break_log = Append(@, [enclosed |-> g.loop_depth > 0,
                                        raised |-> g1.error = SemBreakOutsideLoop,
                                        function |-> g.current_function,
                                        target |-> g.break_target,
                                        innermost |-> IF g.loop_ends = <<>> THEN NoBlock
                                                      ELSE g.loop_ends[Len(g.loop_ends)],
                                        loops |-> g.loop_ends])]

\* a WhileNode is entered: its while_end block will be the third block appended
enter_loop(g) ==
    [g EXCEPT !.loop_depth = @ + 1, !.loop_ends = Append(@, g.next_block + 3)]
leave_loop(g) ==
    [g EXCEPT !.loop_depth = @ - 1, !.loop_ends = SubSeq(@, 1, Len(@) - 1)]

\* _generate_statement, for the statement classes the programs here use.
\* loop_depth counts the while loops around the statement being lowered,
\* loop_ends lists their while_end blocks and break_log records every
\* BreakNode lowered: all three are history, read by no lowering step.
generate_statement(node, g) ==
    IF g.error # "none" THEN g
    ELSE CASE node.kind = "Assignment" -> generate_assignment(node, g)
           [] node.kind = "Print" ->
                Emit(Expression(node.kids[1], g).g, Instr("print", "", 0, 0))
           [] node.kind = "If" -> generate_if(node, g)
           [] node.kind = "While" ->
                leave_loop(generate_while(node, enter_loop(g)))
           [] node.kind = "Return" -> generate_return(node, g)
           [] node.kind = "Break" -> log_break(g, generate_break(node, g))
           [] node.kind = "StructDefinition" -> g
           [] node.kind = "Function" -> Raise(g, "NotImplementedError")
           [] OTHER -> Emit(Expression(node, g).g, Instr("drop", "", 0, 0))

call(method, x, g) ==
    CASE method = "_generate_expression" -> generate_expression(x, g)
      [] method = "_generate_statement" -> Value(generate_statement(x, g), "void")
      [] method = "statements" -> Value(generate_block(x, g), "void")
      [] method = "arguments" -> Value(generate_arguments(x, g), "void")
      [] method = "fstring_parts" -> Value(generate_fstring_parts(x, g), "void")
      [] method = "constructor_fields" -> Value(constructor_fields(x.fields, x.args, g), "void")

\* the parameter loop of _generate_function
RECURSIVE map_params(_, _, _)
map_params(params, i, g) ==
    IF i > Len(params) THEN g
    ELSE map_params(params, i + 1,
             [(IF params[i].type.t = "array" THEN g
               ELSE Emit(Emit(g, Instr("alloca", params[i].name, 0, 0)),
                         Instr("store_param", params[i].name, i, 0)))
                EXCEPT !.local_vars = DictSet(@, params[i].name, LLTy(params[i].type)),
                       !.type_map = DictSet(@, params[i].name, params[i].type)])

\* _generate_function, after the body: the default return, and the restore
\* of the saved context (an exception skips both)
end_function(node, old, g) ==
    IF g.error # "none" THEN g
    ELSE IF is_terminated(g)
    THEN [g EXCEPT !.current_function = old.current_function, !.local_vars = old.local_vars]
    ELSE IF node.return_type.t = "void"
    THEN [EmitTerminator(g, Instr("ret", "", 0, 0))
            EXCEPT !.current_function = old.current_function, !.local_vars = old.local_vars]
    ELSE [EmitTerminator(Emit(convert_type(node.return_type, g).st, Instr("const", "", 0, 0)),
                         Instr("ret", "", 1, 0))
            EXCEPT !.current_function = old.current_function, !.local_vars = old.local_vars]

\* _generate_function
generate_function(node, g) ==
    IF g.error # "none" THEN g
    ELSE IF node.name \notin DictKeys(g.functions) THEN Raise(g, "KeyError")
    ELSE end_function(node, g,
             Statements(node.body,
                 map_params(node.params, 1,
                     Emit([g EXCEPT !.current_function = node.name, !.local_vars = <<>>],
                          Instr("entry", node.name, 0, 0)))))

RECURSIVE emit_all(_, _)
emit_all(instrs, g) ==
    IF instrs = <<>> THEN g ELSE emit_all(Tail(instrs), Emit(g, Head(instrs)))

\* _add_memory_cleanup, from the creation of its three blocks on:
\* cleanup_cond, cleanup_body, cleanup_end are numbered base+1, base+2, base+3
cleanup_loop(base, g) ==
    position_at_end(
        EmitTerminator(
            emit_all(<< Instr("cleanup_free", "", 0, 0), Instr("cleanup_increment", "", 0, 0) >>,
                position_at_end(
                    EmitTerminator(
                        Emit(position_at_end(EmitTerminator(g, Instr("br", "", base + 1, 0)),
                                             "cleanup_cond", base + 1),
                             Instr("cleanup_compare", "", 0, 0)),
                        Instr("cbr", "", base + 2, base + 3)),
                    "cleanup_body", base + 2)),
            Instr("br", "", base + 1, 0)),
        "cleanup_end", base + 3)

clear_references(g) == IF g.error # "none" THEN g ELSE [g EXCEPT !.allocation_array = FALSE]

\* _add_memory_cleanup
add_memory_cleanup(g) ==
    IF ~memory_tracking \/ g.error # "none" THEN g
    ELSE IF g.allocation_array
    THEN clear_references(
             cleanup_loop(g.next_block,
                 append_basic_blocks(
                     emit_all(<< Instr("cleanup_load_count", "", 0, 0),
                                 Instr("cleanup_init", "", 0, 0) >>, g), 3)))
    ELSE \* the generator-side list: one free per recorded pointer value
         [emit_all([i \in 1..g.allocated_ptrs |-> Instr("free_recorded", "", i, 0)], g)
            EXCEPT !.allocated_ptrs = 0]


(***************************************************************************)
(* CODE GENERATOR: generate()                                              *)
(***************************************************************************)
\* the declaration loop over the statements of the file
RECURSIVE declare_statements(_, _, _)
declare_statements(stmts, declared_globals, g) ==
    IF stmts = <<>> \/ g.error # "none" THEN g
    ELSE LET stmt == Head(stmts)
         IN  IF stmt.kind = "Assignment" /\ stmt.is_global
             THEN IF stmt.name \in declared_globals
                  THEN declare_statements(Tail(stmts), declared_globals, g)
                  ELSE declare_statements(Tail(stmts), declared_globals \cup {stmt.name},
                                          declare_global_variable(stmt, g))
             ELSE IF stmt.kind = "Function"
             THEN declare_statements(Tail(stmts), declared_globals, declare_function(stmt, g))
             ELSE declare_statements(Tail(stmts), declared_globals, g)

\* the declaration loop over the import table
RECURSIVE declare_imported(_, _)
declare_imported(items, g) ==
    IF items = <<>> \/ g.error # "none" THEN g
    ELSE LET simple_name == Head(items).key.name
             symbol_info == Head(items).val
         IN  declare_imported(Tail(items),
                 IF symbol_info.type = "variable" /\ simple_name \notin DictKeys(g.global_vars)
                 THEN declare_global_variable(symbol_info.node, g)
                 ELSE IF symbol_info.type = "function" /\ simple_name \notin DictKeys(g.functions)
                 THEN declare_function(symbol_info.node, g)
                 ELSE g)

\* main and its entry block, the ledger globals, the reset of the counter
create_main(g) ==
    IF "main" \in ModuleGlobals(g) THEN Raise(g, "DuplicatedNameError")
    ELSE LET g1 == [g EXCEPT !.module = DictSet(@, "main", <<>>),
                             !.current_function = "main",
                             !.local_vars = <<>>]
             g2 == Emit(g1, Instr("entry", "main", 0, 0))
         IN  IF memory_tracking
             THEN Emit([g2 EXCEPT !.allocation_array = TRUE], Instr("count_reset", "", 0, 0))
             ELSE g2

\* the initializers of the imported globals, lowered into main
RECURSIVE generate_imported_variables(_, _)
generate_imported_variables(items, g) ==
    IF items = <<>> \/ g.error # "none" THEN g
    ELSE LET simple_name == Head(items).key.name
             symbol_info == Head(items).val
         IN  generate_imported_variables(Tail(items),
                 IF symbol_info.type = "variable" /\ simple_name \in DictKeys(g.global_vars)
                 THEN generate_statement(symbol_info.node, g)
                 ELSE g)

\* the bodies of the imported functions
RECURSIVE generate_imported_functions(_, _)
generate_imported_functions(items, g) ==
    IF items = <<>> \/ g.error # "none" THEN g
    ELSE LET simple_name == Head(items).key.name
             symbol_info == Head(items).val
         IN  generate_imported_functions(Tail(items),
                 IF symbol_info.type = "function" /\ simple_name \in DictKeys(g.functions)
                 THEN generate_function(symbol_info.node, g)
                 ELSE g)

\* `ret 0` when the block is still open
return_zero(g) ==
    IF g.error # "none" \/ is_terminated(g) THEN g
    ELSE EmitTerminator(Emit(g, Instr("const", "", 0, 0)), Instr("ret", "", 1, 0))

\* the end of main: the cleanup loop, then the return
finish_main(g) == return_zero(add_memory_cleanup(g))

GenDeclare ==
    /\ gen_pc = "declare"
    /\ LET g == declare_statements(ast, {}, Gen)
       IN  SetGen(g) /\ GenGoto(g, "declare_imported")
    /\ UNCHANGED <<resolverVars, astVars, gen_pos, rtVars, drvVars, frontVars>>

GenDeclareImported ==
    /\ gen_pc = "declare_imported"
    /\ LET g == declare_imported(imported_symbols, Gen)
       IN  SetGen(g) /\ GenGoto(g, "main")
    /\ UNCHANGED <<resolverVars, astVars, gen_pos, rtVars, drvVars, frontVars>>

GenCreateMain ==
    /\ gen_pc = "main"
    /\ LET g == create_main(Gen)
       IN  SetGen(g) /\ GenGoto(g, "imported_variables")
    /\ UNCHANGED <<resolverVars, astVars, gen_pos, rtVars, drvVars, frontVars>>

GenImportedVariables ==
    /\ gen_pc = "imported_variables"
    /\ LET g == generate_imported_variables(imported_symbols, Gen)
       IN  SetGen(g) /\ GenGoto(g, "imported_functions")
    /\ UNCHANGED <<resolverVars, astVars, gen_pos, rtVars, drvVars, frontVars>>

GenImportedFunctions ==
    /\ gen_pc = "imported_functions"
    /\ LET g == generate_imported_functions(imported_symbols, Gen)
       IN  SetGen(g) /\ GenGoto(g, "statements")
    /\ UNCHANGED <<resolverVars, astVars, gen_pos, rtVars, drvVars, frontVars>>

\* one iteration of the loop over the statements of the file
GenStatement ==
    /\ gen_pc = "statements"
    /\ gen_pos <= Len(ast)
    /\ LET stmt == ast[gen_pos]
           g == IF stmt.kind # "Function" THEN generate_statement(stmt, Gen) ELSE Gen
       IN  SetGen(g) /\ GenGoto(g, "statements")
    /\ gen_pos' = gen_pos + 1
    /\ UNCHANGED <<resolverVars, astVars, rtVars, drvVars, frontVars>>

GenFinishMain ==
    /\ gen_pc = "statements"
    /\ gen_pos > Len(ast)
    /\ LET g == finish_main(Gen)
       IN  SetGen(g) /\ GenGoto(g, "functions")
    /\ gen_pos' = 1
    /\ UNCHANGED <<resolverVars, astVars, rtVars, drvVars, frontVars>>

\* one iteration of the loop over the functions of the file
GenFunction ==
    /\ gen_pc = "functions"
    /\ gen_pos <= Len(ast)
    /\ LET stmt == ast[gen_pos]
           g == IF stmt.kind = "Function" THEN generate_function(stmt, Gen) ELSE Gen
       IN  SetGen(g) /\ GenGoto(g, "functions")
    /\ gen_pos' = gen_pos + 1
    /\ UNCHANGED <<resolverVars, astVars, rtVars, drvVars, frontVars>>

\* return self.module
GenReturn ==
    /\ gen_pc = "functions"
    /\ gen_pos > Len(ast)
    /\ gen_pc' = "done"
    /\ UNCHANGED <<resolverVars, astVars, rtVars, drvVars, frontVars, gen_pos, struct_types, struct_log, gen_error, module,
                   current_function, local_vars, global_vars, functions, type_map,
                   break_target, allocation_array, allocated_ptrs, next_block, break_log,
                   assign_log>>

GenNext ==
    \/ ProcessImport
    \/ GenStructs
    \/ GenDeclare
    \/ GenDeclareImported
    \/ GenCreateMain
    \/ GenImportedVariables
    \/ GenImportedFunctions
    \/ GenStatement
    \/ GenFinishMain
    \/ GenFunction
    \/ GenReturn


\* ---- the compiled files: func f, top-level statements, func g ----
MaxTop == 2    \* number of top-level statements between the two functions

Always == BinaryOpNode(NumberNode(0), "LT", NumberNode(1))

TopPool ==
    { AssignmentNode("x", IntType, NumberNode(1), TRUE),
      AssignmentNode("x", StringType, StringNode, TRUE),
      PrintNode(IdentifierNode("x")),
      AssignmentNode("x", NoType, CallNode("f", <<>>), FALSE),
      WhileNode(Always, <<WhileNode(Always, <<IfNode(Always, <<BreakNode>>, <<>>)>>),
                          BreakNode>>),
      BreakNode,
      PrintNode(CallNode("h", <<>>)) }

GenFBodies ==
    { <<ReturnNode(CallNode("g", <<>>))>>,
      <<ReturnNode(IdentifierNode("x"))>>,
      <<BreakNode, ReturnNode(NumberNode(1))>>,
      <<WhileNode(Always, <<BreakNode>>), ReturnNode(NumberNode(1))>>,
      <<WhileNode(Always, <<>>), BreakNode>>,
      <<AssignmentNode("x", IntType, NumberNode(2), FALSE),
        AssignmentNode("x", NoType, NumberNode(3), FALSE),
        ReturnNode(IdentifierNode("x"))>> }

GenGBodies ==
    { <<ReturnNode(CallNode("f", <<>>))>>,
      <<ReturnNode(NumberNode(1))>>,
      <<IfNode(Always, <<BreakNode>>, <<>>), ReturnNode(NumberNode(1))>> }

GenPrograms ==
    { <<FunctionNode("f", <<>>, IntType, fb)>> \o top \o <<FunctionNode("g", <<>>, IntType, gb)>>
      : fb \in GenFBodies, gb \in GenGBodies, top \in {<<>>} \cup SeqsUpTo(TopPool, MaxTop) }

\* module utils: a global and a function that reads it
GenModules ==
    { << AssignmentNode("v", IntType, NumberNode(5), TRUE),
         FunctionNode("h", <<>>, IntType, hb) >>
      : hb \in { <<ReturnNode(IdentifierNode("v"))>>,
                 <<WhileNode(Always, <<>>), BreakNode, ReturnNode(IdentifierNode("v"))>> } }

\* the file imports nothing, or selects h from utils, or (the short files)
\* has `use utils` alone or followed by `use utils select h`
GenInit ==
    /\ ast \in GenPrograms
    /\ \/ /\ use_nodes = <<>>
          /\ loaded_modules = [utils |-> <<>>]
          /\ hash_order = <<>>
       \/ /\ use_nodes = <<UseNode("utils", <<"h">>, FALSE)>>
          /\ loaded_modules \in {[utils |-> extract_exported_symbols(src)] : src \in GenModules}
          /\ hash_order \in {<<"h", "v">>, <<"v", "h">>}
       \/ /\ Len(ast) <= 3
          /\ use_nodes \in { <<UseNode("utils", <<>>, FALSE)>>,
                              <<UseNode("utils", <<>>, FALSE), UseNode("utils", <<"h">>, FALSE)>> }
          /\ loaded_modules \in {[utils |-> extract_exported_symbols(src)] : src \in GenModules}
          /\ hash_order = <<"h", "v">>
    /\ use_pos = 1
    /\ imported_symbols = <<>>
    /\ import_error = FALSE
    /\ GenIdle
    /\ RunIdle
    /\ DrvIdle
    /\ FrontIdle

SpecGen == GenInit /\ [][GenNext]_vars


(***************************************************************************)
(* Declarations before bodies                                              *)
(***************************************************************************)
ImportedNames(kind) ==
    {imported_symbols[i].key.name : i \in {j \in DOMAIN imported_symbols :
                                             imported_symbols[j].val.type = kind}}
TopLevelGlobals == {stmt.name : stmt \in {t \in Range(ast) : t.kind = "Assignment" /\ t.is_global}}
TopLevelFunctions == {stmt.name : stmt \in {t \in Range(ast) : t.kind = "Function"}}

AllDeclared ==
    /\ TopLevelGlobals \cup ImportedNames("variable") \subseteq DictKeys(global_vars)
    /\ TopLevelFunctions \cup ImportedNames("function") \subseteq DictKeys(functions)

\* some instruction of some body exists
LoweringStarted == \E i \in DOMAIN module : module[i].val # <<>>

\* the names the bodies of the file and of the imported functions refer to
ImportedNodes ==
    UNION {AllNodes(imported_symbols[i].val.node) : i \in DOMAIN imported_symbols}
ReferencedNames ==
    {n.name : n \in {m \in AllNodesOf(ast) \cup ImportedNodes :
                       \/ m.kind \in {"Identifier", "Call"}
                       \/ m.kind = "Assignment" /\ m.var_type = NoType}}
UndeclaredErrors ==
    {SemUndeclaredVariable, SemUndeclaredFunction, SemNotVariable, SemNotFunction, "KeyError"}

\* C5: once an instruction of any body exists, every top-level global and
\* every function of the file and of the import table is declared; and a
\* program whose bodies name only such globals and functions, wherever they
\* are defined, is lowered without an undeclared-symbol error.
ClaimC5_DeclaredBeforeBodies ==
    /\ LoweringStarted => AllDeclared
    /\ (ImportsDone /\ ReferencedNames \subseteq
            TopLevelGlobals \cup TopLevelFunctions
                \cup ImportedNames("variable") \cup ImportedNames("function"))
         => gen_error \notin UndeclaredErrors

\* f, the first statement, calls g, the last one; a top-level statement reads
\* x before the let of x; everything was lowered
WitnessC5_DeclaredBeforeBodies ==
    /\ gen_pc = "done"
    /\ gen_error = "none"
    /\ \E i \in DOMAIN DictGet(module, "f") : LET c == DictGet(module, "f")[i]
                                            IN  c.op = "call" /\ c.s = "g"
    /\ \E i, j \in DOMAIN ast :
          /\ i < j
          /\ ast[i] = PrintNode(IdentifierNode("x"))
          /\ ast[j].kind = "Assignment" /\ ast[j].is_global /\ ast[j].name = "x"
    /\ "h" \in ImportedNames("function")


(***************************************************************************)
(* break outside a loop                                                    *)
(***************************************************************************)
\* C7: every BreakNode lowered while no while loop of the code being
\* generated encloses it raised the semantic error, at top level and in
\* function bodies alike.
ClaimC7_BreakOutsideLoop ==
    \A i \in DOMAIN break_log : ~break_log[i].enclosed => break_log[i].raised

\* a break after a loop that has ended, in a function body lowered after the
\* loops of main, raised
WitnessC7_BreakOutsideLoop ==
    /\ gen_pc = "raised"
    /\ \E i \in DOMAIN break_log :
          /\ ~break_log[i].enclosed /\ break_log[i].raised
          /\ break_log[i].function = "f"
    /\ \E i \in DOMAIN DictGet(module, "main") : DictGet(module, "main")[i].s = "while_end"
    /\ \E i \in DOMAIN DictGet(module, "f") : DictGet(module, "f")[i].s = "while_end"


(***************************************************************************)
(* THE GENERATED PROGRAM, RUN                                              *)
(*                                                                         *)
(* The module generate() returned is executed from main.  Pointers are     *)
(* numbered in the order malloc returned them, 0 is the null pointer; a    *)
(* string value is carried as 0.  A store or a load past the end of        *)
(* @allocation_array is undefined behaviour: every outcome listed below is *)
(* taken.                                                                  *)
(***************************************************************************)
LedgerCapacity == 100      \* ir.ArrayType(i8*, 100)
MaxFrames == 3             \* depth of the call stack explored

Frame(fn, args) ==
    [fn |-> fn, ip |-> 1, args |-> args, locals |-> <<>>, stack |-> <<>>,
     cleanup_i |-> 0, cleanup_count |-> 0]

Top == rt_frames[Len(rt_frames)]
Current == DictGet(module, Top.fn)[Top.ip]
Executing(ops) == rt_pc = "running" /\ Current.op \in ops
SetTop(f) == rt_frames' = [rt_frames EXCEPT ![Len(rt_frames)] = f]

Peek(f, k) == f.stack[Len(f.stack) - k]
Popped(f, k) == SubSeq(f.stack, 1, Len(f.stack) - k)
Push(f, k, v) == [f EXCEPT !.stack = Append(Popped(f, k), v), !.ip = @ + 1]
Pop(f, k) == [f EXCEPT !.stack = Popped(f, k), !.ip = @ + 1]

\* the first instruction of a block of the function
LabelIndex(fn, block) ==
    CHOOSE i \in DOMAIN DictGet(module, fn) :
        DictGet(module, fn)[i].op = "label" /\ DictGet(module, fn)[i].n = block

Truth(b) == IF b THEN 1 ELSE 0

\* add, sub, mul, icmp_signed on i64 (the values here stay far from 2^63)
ApplyBinop(operator, a, b) ==
    CASE operator = "PLUS" -> a + b
      [] operator = "MINUS" -> a - b
      [] operator = "MULTIPLY" -> a * b
      [] operator = "LT" -> Truth(a < b)
      [] operator = "GT" -> Truth(a > b)
      [] operator = "LTE" -> Truth(a <= b)
      [] operator = "GTE" -> Truth(a >= b)
      [] operator = "EQ" -> Truth(a = b)
      [] operator = "NEQ" -> Truth(a # b)

ValueOps ==
    {"entry", "label", "count_reset", "const", "string", "convert_to_string", "load_global",
     "store_global", "copy_elements", "load_local", "store_local", "alloca", "store_param",
     "binop", "not", "drop", "print", "store_field", "cleanup_load_count", "cleanup_init",
     "cleanup_compare", "cleanup_increment"}

\* the frame after an instruction that is no call, branch, allocation or free
ExecFrame(f, i) ==
    CASE i.op = "const" -> Push(f, 0, i.n)
      [] i.op = "string" -> Push(f, 0, 0)
      [] i.op = "load_global" -> Push(f, 0, DictGet(rt_globals, i.s))
      [] i.op = "load_local" -> Push(f, 0, DictGet(f.locals, i.s))
      [] i.op = "store_local" -> [Pop(f, 1) EXCEPT !.locals = DictSet(@, i.s, Peek(f, 0))]
      [] i.op = "store_param" -> [f EXCEPT !.locals = DictSet(@, i.s, f.args[i.n]), !.ip = @ + 1]
      [] i.op \in {"store_global", "copy_elements", "drop", "print", "store_field"} -> Pop(f, 1)
      [] i.op = "binop" -> Push(f, 2, ApplyBinop(i.s, Peek(f, 1), Peek(f, 0)))
      [] i.op = "not" -> Push(f, 1, Truth(Peek(f, 0) = 0))
      [] i.op = "cleanup_load_count" ->
            [f EXCEPT !.cleanup_count = allocation_count, !.ip = @ + 1]
      [] i.op = "cleanup_init" -> [f EXCEPT !.cleanup_i = 0, !.ip = @ + 1]
      [] i.op = "cleanup_compare" -> Push(f, 0, Truth(f.cleanup_i < f.cleanup_count))
      [] i.op = "cleanup_increment" -> [f EXCEPT !.cleanup_i = @ + 1, !.ip = @ + 1]
      [] OTHER -> [f EXCEPT !.ip = @ + 1]

\* the loader: every global holds its zero initializer, main is entered
RunStart ==
    /\ gen_pc = "done"
    /\ rt_pc = "off"
    /\ rt_pc' = "running"
    /\ rt_frames' = <<Frame("main", <<>>)>>
    /\ rt_globals' = [i \in DOMAIN global_vars |-> [key |-> global_vars[i].key, val |-> 0]]
    /\ UNCHANGED <<resolverVars, astVars, genVars, drvVars, frontVars, allocation_count, allocation_ledger,
                   rt_heap, rt_freed, rt_output>>

RunInstruction ==
    /\ Executing(ValueOps)
    /\ SetTop(ExecFrame(Top, Current))
    /\ rt_globals' = IF Current.op \in {"store_global", "copy_elements"}
                     THEN DictSet(rt_globals, Current.s, Peek(Top, 0))
                     ELSE rt_globals
    /\ allocation_count' = IF Current.op = "count_reset" THEN 0 ELSE allocation_count
    /\ rt_output' = IF Current.op = "print" THEN Append(rt_output, Peek(Top, 0)) ELSE rt_output
    /\ UNCHANGED <<resolverVars, astVars, genVars, drvVars, frontVars, rt_pc, allocation_ledger, rt_heap, rt_freed>>

\* call malloc: a pointer no earlier call returned
RunMalloc ==
    /\ Executing({"malloc"})
    /\ rt_heap' = Append(rt_heap, [fn |-> Top.fn, site |-> Current.s])
    /\ SetTop(Push(Top, Current.n, Len(rt_heap) + 1))
    /\ UNCHANGED <<resolverVars, astVars, genVars, drvVars, frontVars, rt_pc, rt_globals, allocation_count,
                   allocation_ledger, rt_freed, rt_output>>

\* the store into slot k (counted from 0) of @allocation_array
StoreSlot(ledger, k, ptr) ==
    [i \in 1..(IF k < Len(ledger) THEN Len(ledger) ELSE k + 1) |->
        IF i = k + 1 THEN ptr ELSE IF i <= Len(ledger) THEN ledger[i] ELSE 0]

\* the load of slot k
LoadSlot(ledger, k) == IF k < Len(ledger) THEN ledger[k + 1] ELSE 0

\* the instructions of _track_allocation, the counter inside the array
RunTrack ==
    /\ Executing({"track"})
    /\ allocation_count < LedgerCapacity
    /\ allocation_ledger' = StoreSlot(allocation_ledger, allocation_count, Peek(Top, 0))
    /\ allocation_count' = allocation_count + 1
    /\ SetTop([Top EXCEPT !.ip = @ + 1])
    /\ UNCHANGED <<resolverVars, astVars, genVars, drvVars, frontVars, rt_pc, rt_globals, rt_heap, rt_freed,
                   rt_output>>

\* the same instructions, the counter at or past the end of the array: the
\* store lands on other memory (nothing of the ledger changes), or the
\* program dies
RunTrackOverflow ==
    /\ Executing({"track"})
    /\ allocation_count >= LedgerCapacity
    /\ \/ /\ allocation_count' = allocation_count + 1
          /\ SetTop([Top EXCEPT !.ip = @ + 1])
          /\ UNCHANGED rt_pc
       \/ /\ rt_pc' = "crashed"
          /\ UNCHANGED <<allocation_count, rt_frames>>
    /\ UNCHANGED <<resolverVars, astVars, genVars, drvVars, frontVars, rt_globals, allocation_ledger, rt_heap,
                   rt_freed, rt_output>>

RunBranch ==
    /\ Executing({"br", "cbr"})
    /\ SetTop(IF Current.op = "br"
              THEN [Top EXCEPT !.ip = LabelIndex(Top.fn, Current.n)]
              ELSE [Top EXCEPT !.stack = Popped(Top, 1),
                               !.ip = LabelIndex(Top.fn, IF Peek(Top, 0) # 0 THEN Current.n
                                                         ELSE Current.m)])
    /\ UNCHANGED <<resolverVars, astVars, genVars, drvVars, frontVars, rt_pc, rt_globals, allocation_count,
                   allocation_ledger, rt_heap, rt_freed, rt_output>>

RunCall ==
    /\ Executing({"call"})
    /\ Len(rt_frames) < MaxFrames
    /\ DictGet(module, Current.s) # <<>>
    /\ rt_frames' = Append([rt_frames EXCEPT ![Len(rt_frames)].stack = Popped(Top, Current.n)],
                           Frame(Current.s,
                                 SubSeq(Top.stack, Len(Top.stack) - Current.n + 1,
                                        Len(Top.stack))))
    /\ UNCHANGED <<resolverVars, astVars, genVars, drvVars, frontVars, rt_pc, rt_globals, allocation_count,
                   allocation_ledger, rt_heap, rt_freed, rt_output>>

\* ret: back in the caller after its call, or, from main, the process exits
RunReturn ==
    /\ Executing({"ret"})
    /\ IF Len(rt_frames) = 1
       THEN rt_pc' = "exited" /\ rt_frames' = <<>>
       ELSE /\ rt_frames' = [SubSeq(rt_frames, 1, Len(rt_frames) - 1)
                                EXCEPT ![Len(rt_frames) - 1] =
                                    Push(rt_frames[Len(rt_frames) - 1], 0,
                                         IF Current.n = 1 THEN Peek(Top, 0) ELSE 0)]
            /\ UNCHANGED rt_pc
    /\ UNCHANGED <<resolverVars, astVars, genVars, drvVars, frontVars, rt_globals, allocation_count,
                   allocation_ledger, rt_heap, rt_freed, rt_output>>

\* the body of the cleanup loop: free(allocation_array[i])
RunCleanupFree ==
    /\ Executing({"cleanup_free"})
    /\ Top.cleanup_i < LedgerCapacity
    /\ rt_freed' = Append(rt_freed, LoadSlot(allocation_ledger, Top.cleanup_i))
    /\ SetTop([Top EXCEPT !.ip = @ + 1])
    /\ UNCHANGED <<resolverVars, astVars, genVars, drvVars, frontVars, rt_pc, rt_globals, allocation_count,
                   allocation_ledger, rt_heap, rt_output>>

\* the same, i at or past the end of the array: the word read is whatever
\* lies there, null or some pointer, or the program dies
RunCleanupFreeOverflow ==
    /\ Executing({"cleanup_free"})
    /\ Top.cleanup_i >= LedgerCapacity
    /\ \/ /\ \E ptr \in 0..Len(rt_heap) : rt_freed' = Append(rt_freed, ptr)
          /\ SetTop([Top EXCEPT !.ip = @ + 1])
          /\ UNCHANGED rt_pc
       \/ /\ rt_pc' = "crashed"
          /\ UNCHANGED <<rt_freed, rt_frames>>
    /\ UNCHANGED <<resolverVars, astVars, genVars, drvVars, frontVars, rt_globals, allocation_count,
                   allocation_ledger, rt_heap, rt_output>>

RunNext ==
    \/ GenNext
    \/ RunStart
    \/ RunInstruction
    \/ RunMalloc
    \/ RunTrack
    \/ RunTrackOverflow
    \/ RunBranch
    \/ RunCall
    \/ RunReturn
    \/ RunCleanupFree
    \/ RunCleanupFreeOverflow


\* ---- the programs run: func f, top-level statements ----
MaxRun == 2    \* number of top-level statements of the file

Concatenation == BinaryOpNode(StringNode, "PLUS", StringNode)

RunTopPool ==
    { AssignmentNode("x", IntType, NumberNode(1), TRUE),
      AssignmentNode("x", NoType, NumberNode(2), FALSE),
      PrintNode(IdentifierNode("x")),
      PrintNode(FStringNode(<<Literal, NumberNode(1), Literal>>)),
      AssignmentNode("s", StringType, Concatenation, TRUE),
      PrintNode(CallNode("f", <<NumberNode(3)>>)),
      PrintNode(CallNode("h", <<>>)),
      PrintNode(CallNode("a", <<>>)),
      PrintNode(CallNode("k", <<>>)) }

\* the body of a function that concatenates two strings into a local
Allocating == <<AssignmentNode("s", StringType, Concatenation, FALSE), ReturnNode(NumberNode(1))>>

RunFunction ==
    FunctionNode("f", <<Param("n", IntType)>>, IntType,
        <<IfNode(BinaryOpNode(IdentifierNode("n"), "LT", NumberNode(1)),
                 <<ReturnNode(NumberNode(0))>>, <<>>),
          ReturnNode(BinaryOpNode(IdentifierNode("n"), "MINUS", NumberNode(1)))>>)

\* module utils: a global named x, a function that reads it, a function that
\* allocates, a struct
RunModule ==
    << AssignmentNode("x", IntType, NumberNode(5), TRUE),
       FunctionNode("h", <<>>, IntType, <<ReturnNode(IdentifierNode("x"))>>),
       FunctionNode("k", <<>>, IntType, Allocating),
       StructDefinitionNode("P", <<Field("v", IntType)>>) >>

\* one string concatenation more than the ledger has slots
LedgerOverflow ==
    << AssignmentNode("s", StringType, StringNode, TRUE),
       AssignmentNode("i", IntType, NumberNode(0), TRUE),
       WhileNode(BinaryOpNode(IdentifierNode("i"), "LT", NumberNode(LedgerCapacity + 1)),
                 << AssignmentNode("s", NoType, Concatenation, FALSE),
                    AssignmentNode("i", NoType,
                                   BinaryOpNode(IdentifierNode("i"), "PLUS", NumberNode(1)),
                                   FALSE) >>) >>

RunPrograms ==
    {LedgerOverflow}
        \cup {<<RunFunction, FunctionNode("a", <<>>, IntType, Allocating)>> \o top
                 : top \in SeqsUpTo(RunTopPool, MaxRun)}

\* the file imports nothing, or selects x, h and k from utils
RunInit ==
    /\ ast \in RunPrograms
    /\ \/ /\ use_nodes = <<>>
          /\ loaded_modules = [utils |-> <<>>]
          /\ hash_order = <<>>
       \/ /\ use_nodes = <<UseNode("utils", <<"x", "h", "k">>, FALSE)>>
          /\ loaded_modules = [utils |-> extract_exported_symbols(RunModule)]
          /\ hash_order = <<"h", "x", "k">>
    /\ use_pos = 1
    /\ imported_symbols = <<>>
    /\ import_error = FALSE
    /\ GenIdle
    /\ RunIdle
    /\ DrvIdle
    /\ FrontIdle

SpecRun == RunInit /\ [][RunNext]_vars


(***************************************************************************)
(* The ledger at run time                                                  *)
(***************************************************************************)
TimesFreed(ptr) == Cardinality({i \in DOMAIN rt_freed : rt_freed[i] = ptr})

\* C2: when the program has exited, every block allocated by an instruction
\* of main (string concatenations of f-strings included) is in the ledger
\* and was passed to free exactly once.
ClaimC2_MainBlocksFreedOnce ==
    rt_pc = "exited" =>
        \A ptr \in DOMAIN rt_heap :
            rt_heap[ptr].fn = "main" =>
                ptr \in Range(allocation_ledger) /\ TimesFreed(ptr) = 1

\* C3: no pointer is in two slots of the ledger, no pointer is passed to
\* free twice, the counter is the number of slots written since main was
\* entered, and at exit the cleanup loop has freed slot 0, slot 1, ... up to
\* the counter, each once.
ClaimC3_LedgerDistinct ==
    /\ \A i, j \in DOMAIN allocation_ledger :
          allocation_ledger[i] = allocation_ledger[j] => i = j
    /\ \A ptr \in DOMAIN rt_heap : TimesFreed(ptr) <= 1
    /\ rt_pc = "running" => allocation_count = Len(allocation_ledger)
    /\ rt_pc = "exited" => rt_freed = allocation_ledger


(***************************************************************************)
(* Top-level statements in textual order                                   *)
(***************************************************************************)
\* the top-level statements whose effect the textual order alone fixes:
\* a global set to a number, a global printed
Plain(stmt) ==
    \/ stmt.kind = "Function"
    \/ stmt.kind = "Assignment" /\ stmt.kids[1].kind = "Number"
    \/ stmt.kind = "Print" /\ stmt.kids[1].kind = "Identifier"
                           /\ stmt.kids[1].name \in TopLevelGlobals

\* what the statements print when run in textual order from the globals env
RECURSIVE TextualOutput(_, _, _)
TextualOutput(stmts, env, out) ==
    IF stmts = <<>> THEN out
    ELSE IF Head(stmts).kind = "Assignment"
    THEN TextualOutput(Tail(stmts), DictSet(env, Head(stmts).name, Head(stmts).kids[1].value), out)
    ELSE IF Head(stmts).kind = "Print"
    THEN TextualOutput(Tail(stmts), env, Append(out, DictGet(env, Head(stmts).kids[1].name)))
    ELSE TextualOutput(Tail(stmts), env, out)

ZeroGlobals == [i \in DOMAIN rt_globals |-> [key |-> rt_globals[i].key, val |-> 0]]

\* C6: a file of plain top-level statements prints what its statements print
\* when run in textual order from zeroed globals: a print before a global's
\* let shows zero, a print after it shows the initializer.
ClaimC6_TextualOrder ==
    (rt_pc = "exited" /\ \A i \in DOMAIN ast : Plain(ast[i])) =>
        rt_output = TextualOutput(ast, ZeroGlobals, <<>>)


(***************************************************************************)
(* SEMANTIC CHECKER                                                        *)
(***************************************************************************)
SemReturnValueInVoid  == "NoxySemanticError: void function returns a value"
SemReturnWithoutValue == "NoxySemanticError: return without a value"
SemInvalidFString     == "NoxySemanticError: invalid expression in f-string"

\* a list that holds no statement nested in another
find_return_statements_top(statements) ==
    SelectSeq(statements, LAMBDA stmt : stmt.kind = "Return")

\* _find_return_statements
RECURSIVE find_return_statements(_)
find_return_statements(statements) ==
    IF statements = <<>> THEN <<>>
    ELSE (CASE Head(statements).kind = "Return" -> <<Head(statements)>>
            [] Head(statements).kind = "If" ->
                 find_return_statements(Head(statements).body)
                     \o find_return_statements(Head(statements).orelse)
            [] Head(statements).kind = "While" -> find_return_statements(Head(statements).body)
            [] OTHER -> <<>>)
         \o find_return_statements(Tail(statements))

\* the loop of _validate_function_returns: the first return that raises
RECURSIVE validate_returns(_, _)
validate_returns(return_statements, expected_return_type) ==
    IF return_statements = <<>> THEN "none"
    ELSE IF expected_return_type.t = "void" /\ Head(return_statements).kids # <<>>
    THEN SemReturnValueInVoid
    ELSE IF expected_return_type.t # "void" /\ Head(return_statements).kids = <<>>
    THEN SemReturnWithoutValue
    ELSE validate_returns(Tail(return_statements), expected_return_type)

\* _validate_function_returns
validate_function_returns(func_node) ==
    validate_returns(find_return_statements(func_node.body), func_node.return_type)

\* _check_function_return_types
RECURSIVE check_function_return_types(_)
check_function_return_types(statements) ==
    IF statements = <<>> THEN "none"
    ELSE IF Head(statements).kind = "Function"
            /\ validate_function_returns(Head(statements)) # "none"
    THEN validate_function_returns(Head(statements))
    ELSE check_function_return_types(Tail(statements))

\* _validate_fstring_parts: a part that is no str and is None raises
validate_fstring_parts(fstring_node) ==
    IF \E i \in DOMAIN fstring_node.kids : fstring_node.kids[i].kind = "None"
    THEN SemInvalidFString ELSE "none"

\* the nodes _traverse_and_check_fstrings visits below a node
TraversedBelow(node) ==
    CASE node.kind = "Function" -> node.body
      [] node.kind = "If" -> node.kids \o node.body \o node.orelse
      [] node.kind = "While" -> node.kids \o node.body
      [] node.kind \in {"BinaryOp", "UnaryOp", "Assignment", "Print", "Return", "Call"} ->
            node.kids
      [] OTHER -> <<>>

\* _traverse_and_check_fstrings, over a list of nodes: the first error
RECURSIVE traverse_and_check_fstrings(_)
traverse_and_check_fstrings(nodes) ==
    IF nodes = <<>> THEN "none"
    ELSE IF Head(nodes).kind = "FString"
    THEN IF validate_fstring_parts(Head(nodes)) # "none"
         THEN validate_fstring_parts(Head(nodes))
         ELSE traverse_and_check_fstrings(Tail(nodes))
    ELSE traverse_and_check_fstrings(TraversedBelow(Head(nodes)) \o Tail(nodes))

\* _check_fstring_expressions
check_fstring_expressions(statements) == traverse_and_check_fstrings(statements)

\* _process_imports: the loop over the UseNode statements, until one raises
RECURSIVE process_imports(_, _, _)
process_imports(uses, pos, imported) ==
    IF pos > Len(uses) THEN [imported |-> imported, pos |-> pos, raised |-> FALSE]
    ELSE IF handle_use_statement(uses[pos], imported).raised
    THEN [imported |-> handle_use_statement(uses[pos], imported).imported,
          pos |-> pos, raised |-> TRUE]
    ELSE process_imports(uses, pos + 1, handle_use_statement(uses[pos], imported).imported)


(***************************************************************************)
(* NoxyCompiler.compile and NoxyCompiler.compile_with_debug_ir             *)
(***************************************************************************)
LexerError    == "NoxySyntaxError: lexer"
ParserError   == "NoxySyntaxError: parser"
ImportError   == "NoxyError: Erro ao processar import"
InternalError == "NoxyError: Erro interno do compilador"

NoxySyntaxErrors == {LexerError, ParserError}

\* the exceptions that are instances of NoxyError
NoxyErrors ==
    NoxySyntaxErrors
        \cup {ImportError, InternalError, SemReturnValueInVoid, SemReturnWithoutValue,
              SemInvalidFString}
        \cup GeneratorNoxyErrors

SemanticStages == {"import resolution", "return-type check", "f-string check"}

Stage(name, error) == [stage |-> name, error |-> error]
Diagnostic(prefix, error) == [prefix |-> prefix, error |-> error]

\* compile: `except NoxyError: raise`, `except Exception as e: raise NoxyError(...)`
compile_except_reraise(e) == e

compile_except(e) == IF e \in NoxyErrors THEN e ELSE InternalError

\* compile_with_debug_ir, its outer handlers: the message returned
debug_except(e) ==
    IF e \in NoxySyntaxErrors THEN <<Diagnostic("ERRO DE SINTAXE", e)>>
    ELSE <<Diagnostic("ERRO INTERNO DO COMPILADOR", e)>>

\* compile_with_debug_ir, where it goes on when _perform_semantic_analysis
\* raised e: the inner handler catches a NoxyError and the generator is tried
debug_after_semantic_error_returns(e) == "returned"

debug_after_semantic_error(e) == IF e \in NoxyErrors THEN "codegen" ELSE "returned"

\* the end of a stage before code generation: e is what it raised
StageDone(name, e, next) ==
    /\ stages' = Append(stages, Stage(name, e))
    /\ IF e = "none"
       THEN drv_pc' = next /\ UNCHANGED <<semantic_success, error_message, raised>>
       ELSE IF drv_entry = "compile"
       THEN /\ drv_pc' = "raised"
            /\ raised' = compile_except(e)
            /\ UNCHANGED <<semantic_success, error_message>>
       ELSE IF name \in SemanticStages
       THEN /\ drv_pc' = debug_after_semantic_error(e)
            /\ semantic_success' = IF e \in NoxyErrors THEN FALSE ELSE semantic_success
            /\ error_message' = IF e \in NoxyErrors THEN <<Diagnostic("ERRO SEMÂNTICO", e)>>
                                ELSE debug_except(e)
            /\ UNCHANGED raised
       ELSE /\ drv_pc' = "returned"
            /\ error_message' = debug_except(e)
            /\ UNCHANGED <<semantic_success, raised>>
    /\ UNCHANGED <<drv_entry, source, ir_code, frontVars>>

\* Lexer(source).tokenize()
DrvLexer ==
    /\ drv_pc = "lexing"
    /\ StageDone("lexing", source.lexer, "parsing")
    /\ UNCHANGED <<resolverVars, astVars, genVars, rtVars>>

\* Parser(tokens).parse()
DrvParser ==
    /\ drv_pc = "parsing"
    /\ StageDone("parsing", source.parser, "imports")
    /\ UNCHANGED <<resolverVars, astVars, genVars, rtVars>>

\* _perform_semantic_analysis: self._process_imports(ast)
DrvProcessImports ==
    /\ drv_pc = "imports"
    /\ imported_symbols' = process_imports(use_nodes, use_pos, imported_symbols).imported
    /\ use_pos' = process_imports(use_nodes, use_pos, imported_symbols).pos
    /\ import_error' = process_imports(use_nodes, use_pos, imported_symbols).raised
    /\ StageDone("import resolution",
                 IF process_imports(use_nodes, use_pos, imported_symbols).raised
                 THEN ImportError ELSE "none",
                 "return_check")
    /\ UNCHANGED <<loaded_modules, use_nodes, hash_order, astVars, genVars, rtVars>>

\* _perform_semantic_analysis: self._check_function_return_types(ast)
DrvReturnCheck ==
    /\ drv_pc = "return_check"
    /\ StageDone("return-type check", check_function_return_types(ast), "fstring_check")
    /\ UNCHANGED <<resolverVars, astVars, genVars, rtVars>>

\* _perform_semantic_analysis: self._check_fstring_expressions(ast)
DrvFStringCheck ==
    /\ drv_pc = "fstring_check"
    /\ StageDone("f-string check", check_fstring_expressions(ast), "codegen")
    /\ UNCHANGED <<resolverVars, astVars, genVars, rtVars>>

\* self.codegen.generate(ast): one step of generate()
DrvGenerate ==
    /\ drv_pc = "codegen"
    /\ \/ generate_structs
       \/ GenDeclare
       \/ GenDeclareImported
       \/ GenCreateMain
       \/ GenImportedVariables
       \/ GenImportedFunctions
       \/ GenStatement
       \/ GenFinishMain
       \/ GenFunction
       \/ GenReturn

\* generate() returned the module or raised: compile returns str(llvm_module)
\* or raises; compile_with_debug_ir returns the module it has either way
DrvGenerateEnd ==
    /\ drv_pc = "codegen"
    /\ gen_pc \in {"done", "raised"}
    /\ stages' = Append(stages, Stage("code generation", gen_error))
    /\ IF drv_entry = "compile"
       THEN /\ drv_pc' = IF gen_error = "none" THEN "returned" ELSE "raised"
            /\ ir_code' = IF gen_error = "none" THEN <<module>> ELSE ir_code
            /\ raised' = IF gen_error = "none" THEN raised ELSE compile_except(gen_error)
            /\ UNCHANGED error_message
       ELSE /\ drv_pc' = "returned"
            /\ ir_code' = <<module>>
            /\ error_message' =
                  IF gen_error = "none" THEN error_message
                  ELSE IF error_message # <<>>
                  THEN Append(error_message,
                              Diagnostic("Erro adicional na geração de código", gen_error))
                  ELSE <<Diagnostic("ERRO DE GERAÇÃO DE CÓDIGO", gen_error)>>
            /\ UNCHANGED raised
    /\ UNCHANGED <<drv_entry, source, semantic_success, resolverVars, astVars, genVars, rtVars,
                   frontVars>>

CompileNext ==
    \/ DrvLexer
    \/ DrvParser
    \/ DrvProcessImports
    \/ DrvReturnCheck
    \/ DrvFStringCheck
    \/ DrvGenerate
    \/ DrvGenerateEnd


\* ---- the files compiled: func f, then at most one more statement ----
NestedFunction(rt, body) == FunctionNode("g", <<>>, rt, body)

CompileBodies ==
    { <<ReturnNode(NumberNode(1))>>,
      <<ReturnVoidNode>>,
      <<ReturnNode(StringNode)>>,
      <<WhileNode(Always, <<IfNode(Always, <<ReturnVoidNode>>, <<ReturnNode(NumberNode(1))>>)>>),
        ReturnNode(NumberNode(1))>>,
      <<IfNode(Always, <<>>, <<ReturnNode(NumberNode(1))>>)>>,
      <<WhileNode(Always, <<ReturnVoidNode>>)>>,
      <<NestedFunction(VoidType, <<ReturnNode(NumberNode(1))>>), ReturnNode(NumberNode(1))>>,
      <<PrintNode(FStringNode(<<Literal, NumberNode(1)>>))>>,
      <<ReturnNode(IdentifierNode("y"))>> }

CompileTails ==
    { <<>>,
      <<PrintNode(IdentifierNode("y"))>>,
      <<PrintNode(CallNode("f", <<>>))>>,
      <<IfNode(Always, <<NestedFunction(IntType, <<ReturnVoidNode>>)>>, <<>>)>>,
      <<PrintNode(BinaryOpNode(StringNode, "PLUS", NumberNode(1)))>>,
      <<PrintNode(BinaryOpNode(FloatNode(1), "PLUS", StringNode))>>,
      <<PrintNode(BinaryOpNode(BooleanNode(TRUE), "PLUS", StringNode))>>,
      <<PrintNode(BinaryOpNode(StringNode, "PLUS", StringNode))>>,
      <<AssignmentNode("q", ArrayType("Z", 2), ZerosNode(2), TRUE)>>,
      <<PrintNode(CallNode("length", <<>>))>>,
      <<AssignmentNode("y", IntType, NumberNode(1), TRUE)>>,
      \* `let p: P = P(1)`: the file defines no struct P, so _parse_postfix
      \* finds P neither in defined_functions nor in defined_structs
      <<AssignmentNode("p", StructType("P"), CallNode("P", <<NumberNode(1)>>), TRUE)>>,
      <<IfNode(Always, <<AssignmentNode("y", IntType, NumberNode(1), TRUE)>>, <<>>)>>,
      <<FunctionNode("k", <<Param("a", IntType)>>, VoidType, <<>>), PrintNode(CallNode("k", <<>>))>> }

CompilePrograms ==
    { <<FunctionNode("f", <<>>, rt, body)>> \o tail
      : rt \in {VoidType, IntType}, body \in CompileBodies, tail \in CompileTails }

\* a fresh NoxyCompiler, one of its two entry points called on a source text
\* that lexes and parses to ast or makes the lexer or the parser raise
CompileInit ==
    /\ drv_entry \in {"compile", "compile_with_debug_ir"}
    /\ source \in [lexer : {"none", LexerError}, parser : {"none", ParserError}]
    /\ drv_pc = "lexing"
    /\ stages = <<>>
    /\ semantic_success = TRUE
    /\ error_message = <<>>
    /\ ir_code = <<>>
    /\ raised = "none"
    /\ ast \in CompilePrograms
    /\ loaded_modules = [utils |-> extract_exported_symbols(RunModule)]
    /\ use_nodes \in { <<>>, <<UseNode("utils", <<"h">>, FALSE)>>,
                       <<UseNode("utils", <<"P">>, FALSE)>>,
                       <<UseNode("ghost", <<>>, TRUE)>> }
    /\ hash_order = <<"h", "x", "P">>
    /\ use_pos = 1
    /\ imported_symbols = <<>>
    /\ import_error = FALSE
    /\ GenIdle
    /\ RunIdle
    /\ FrontIdle

SpecCompile == CompileInit /\ [][CompileNext]_vars


(***************************************************************************)
(* The return check                                                        *)
(***************************************************************************)
\* the function definitions of the file, at any depth
RECURSIVE FunctionsIn(_)
FunctionsIn(stmts) ==
    UNION { (IF stmt.kind = "Function" THEN {stmt} ELSE {})
                \cup FunctionsIn(stmt.body) \cup FunctionsIn(stmt.orelse)
            : stmt \in Range(stmts) }

TopLevelFunctionNodes == {stmt \in Range(ast) : stmt.kind = "Function"}

\* the returns of a body, at any depth of if/else branches and while bodies
RECURSIVE ReturnsOf(_)
ReturnsOf(stmts) ==
    UNION { IF stmt.kind = "Return" THEN {stmt}
            ELSE IF stmt.kind \in {"If", "While"}
            THEN ReturnsOf(stmt.body) \cup ReturnsOf(stmt.orelse)
            ELSE {}
            : stmt \in Range(stmts) }

\* void with a return of a value, or non-void with a return without one
Offending(func_node) ==
    \/ func_node.return_type.t = "void" /\ \E r \in ReturnsOf(func_node.body) : r.kids # <<>>
    \/ func_node.return_type.t # "void" /\ \E r \in ReturnsOf(func_node.body) : r.kids = <<>>

ReturnCheckRaised ==
    \E i \in DOMAIN stages : stages[i].stage = "return-type check" /\ stages[i].error # "none"
ReturnCheckRan == \E i \in DOMAIN stages : stages[i].stage = "return-type check"

\* C8 as stated: the return check raises exactly when some function defined
\* in the file, at any depth, is void and returns a value or is non-void and
\* has a return without a value.
ClaimC8_EveryFunction ==
    ReturnCheckRan => (ReturnCheckRaised <=> \E f \in FunctionsIn(ast) : Offending(f))

\* C8: the return check raises exactly when some function defined at the
\* top level of the file is void and has a return with a value, or is
\* non-void and has a return without a value, at any depth of if/else
\* branches and while bodies; the type of a returned value plays no part.
ClaimC8_TopLevelFunctions ==
    ReturnCheckRan => (ReturnCheckRaised <=> \E f \in TopLevelFunctionNodes : Offending(f))

\* a non-void function whose only return without a value is inside an if
\* inside a while: the check raised
WitnessC8_TopLevelFunctions ==
    /\ ReturnCheckRaised
    /\ \E f \in TopLevelFunctionNodes :
          /\ f.return_type = IntType
          /\ \A i \in DOMAIN f.body : f.body[i].kind = "Return" => f.body[i].kids # <<>>
          /\ \E i \in DOMAIN f.body :
                /\ f.body[i].kind = "While"
                /\ \E j \in DOMAIN f.body[i].body :
                      /\ f.body[i].body[j].kind = "If"
                      /\ \E r \in ReturnsOf(f.body[i].body[j].body) : r.kids = <<>>


(***************************************************************************)
(* The two entry points                                                    *)
(***************************************************************************)
StageOrder ==
    <<"lexing", "parsing", "import resolution", "return-type check", "f-string check",
      "code generation">>

StageNames == [i \in DOMAIN stages |-> stages[i].stage]
StageErrors == {i \in DOMAIN stages : stages[i].error # "none"}
StageRan(name) == \E i \in DOMAIN stages : stages[i].stage = name
StageRaised(names) ==
    \E i \in DOMAIN stages : stages[i].stage \in names /\ stages[i].error # "none"

ResolverUntouched == use_pos = 1 /\ imported_symbols = <<>> /\ ~import_error
GeneratorUntouched == gen_pc = "structs" /\ module = <<>> /\ struct_log = <<>>

\* C9: in compile the stages that ran are an initial part of the order lexing,
\* parsing, import resolution, return-type check, f-string check, code
\* generation; only the last of them can have raised; the resolver has not
\* worked before parsing ended nor the generator before the f-string check
\* ended; an error leaves as an instance of NoxyError made from the first
\* (the only) error raised, with no IR; IR is returned only after all six
\* stages ran without an error.
ClaimC9_StageOrder ==
    drv_entry = "compile" =>
        /\ StageNames = SubSeq(StageOrder, 1, Len(stages))
        /\ StageErrors \subseteq {Len(stages)}
        /\ Len(stages) < 2 => ResolverUntouched
        /\ Len(stages) < 5 => GeneratorUntouched
        /\ drv_pc = "raised" <=> StageErrors # {}
        /\ drv_pc = "raised" =>
              /\ raised \in NoxyErrors
              /\ raised \in {stages[Len(stages)].error, InternalError}
              /\ ir_code = <<>>
        /\ drv_pc # "raised" => raised = "none"
        /\ ir_code # <<>> =>
              /\ drv_pc = "returned" /\ Len(stages) = 6 /\ StageErrors = {}
              /\ ir_code = <<module>> /\ gen_pc = "done"
        /\ drv_pc = "returned" => ir_code # <<>>

\* the return check raised on a file whose top-level print(y) the generator
\* would have refused, and on an import the resolver had resolved: compile
\* raised the return check's error and the generator did nothing
WitnessC9_StageOrder ==
    /\ drv_entry = "compile"
    /\ drv_pc = "raised"
    /\ raised = SemReturnValueInVoid
    /\ Len(stages) = 4
    /\ imported_symbols # <<>>
    /\ GeneratorUntouched
    /\ \E i \in DOMAIN ast : ast[i].kind = "Print" /\ ast[i].kids[1].kind = "Identifier"

SemanticErrors ==
    {SemReturnValueInVoid, SemReturnWithoutValue, SemInvalidFString, SemNotVariable,
     SemUndeclaredVariable, SemNotFunction, SemUndeclaredFunction, SemBreakOutsideLoop}

\* the lowered class of a literal operand
LiteralClass(node) ==
    CASE node.kind = "String" -> "i8*"
      [] node.kind = "Number" -> "i64"
      [] node.kind = "Float" -> "double"
      [] node.kind = "Boolean" -> "i1"
      [] OTHER -> "other"

PlusNodes == {n \in AllNodesOf(ast) : n.kind = "BinaryOp" /\ n.operator = "PLUS"}
MixedPlus(n) ==
    /\ "i8*" \in {LiteralClass(n.kids[1]), LiteralClass(n.kids[2])}
    /\ {LiteralClass(n.kids[1]), LiteralClass(n.kids[2])} \cap {"i64", "double", "i1"} # {}
StringPlus(n) == {LiteralClass(n.kids[1]), LiteralClass(n.kids[2])} = {"i8*"}

\* the concatenations the module holds: (function, index) of every malloc of
\* the `+` branch
PlusBuffers ==
    UNION {{<<module[f].key, j>> : j \in {i \in DOMAIN module[f].val :
                                            /\ module[f].val[i].op = "malloc"
                                            /\ module[f].val[i].s = "plus"}}
           : f \in DOMAIN module}

\* the malloc of a concatenation is followed by the registration of its result
Tracked(fn, i) ==
    /\ i < Len(DictGet(module, fn))
    /\ DictGet(module, fn)[i + 1].op = "track"

\* C11: a file whose `+` has one string operand and one int, float or bool
\* operand is refused with a semantic or a code-generation error and no
\* concatenation is emitted; a `+` of two strings is lowered to a buffer built
\* from both operands and registered in the ledger.
ClaimC11_StringPlus ==
    /\ (\A n \in PlusNodes : ~StringPlus(n)) => PlusBuffers = {}
    /\ \A n \in PlusNodes : MixedPlus(n) =>
          /\ gen_pc # "done"
          /\ (drv_pc = "raised" /\ gen_error = PlusTypeError)
                => raised \in SemanticErrors \cup {CodeGenWrapped}
    /\ \A n \in PlusNodes : (StringPlus(n) /\ gen_pc = "done") =>
          /\ PlusBuffers # {}
          /\ \A b \in PlusBuffers : Tracked(b[1], b[2])


(***************************************************************************)
(* Duplicate declarations of a global                                      *)
(***************************************************************************)
\* the top-level declarations of globals: positions in the file
GlobalDeclarations ==
    {i \in DOMAIN ast : ast[i].kind = "Assignment" /\ ast[i].is_global
                            /\ ast[i].var_type # NoType}

\* a later declaration of the name of an earlier one
Duplicates ==
    {p \in GlobalDeclarations \X GlobalDeclarations :
        p[1] < p[2] /\ ast[p[1]].name = ast[p[2]].name}
ConflictingDuplicates == {p \in Duplicates : ast[p[1]].var_type # ast[p[2]].var_type}

\* the declaration loops of generate() are over
DeclarationPassOver == gen_pc \notin {"structs", "declare", "declare_imported", "raised"}
RaisedByDeclarationPass == gen_pc = "raised" /\ "main" \notin DictKeys(module)

\* C12: a global name has one global of the module; a file with a second
\* declaration of a name under another type is refused by the declaration
\* pass, which raises before main exists; a file whose duplicates repeat the
\* type is declared without a declaration error.
ClaimC12_DuplicateGlobals ==
    /\ \A n \in DictKeys(global_vars) :
          Cardinality({i \in DOMAIN global_vars : global_vars[i].key = n}) = 1
    /\ gen_error # "DuplicatedNameError"
    /\ ConflictingDuplicates # {} =>
          /\ ~DeclarationPassOver
          /\ gen_pc = "raised" => RaisedByDeclarationPass
    /\ (Duplicates # {} /\ ConflictingDuplicates = {}) =>
          /\ gen_error \notin {RedeclarationTypeError, StoreTypeError}
          /\ DeclarationPassOver =>
                \A p \in Duplicates : ast[p[1]].name \in DictKeys(global_vars)


(***************************************************************************)
(* LEXER.  The source text is a sequence of characters; Lexer.position     *)
(* counts from 0, so the current character is source[position + 1].        *)
(***************************************************************************)
isdigit(c) == c \in {"0", "1", "2", "3", "4", "5", "6", "7", "8", "9"}
isalpha(c) ==
    c \in {"a", "b", "c", "d", "e", "f", "g", "h", "i", "j", "k", "l", "m", "n", "o", "p", "q",
           "r", "s", "t", "u", "v", "w", "x", "y", "z", "A", "B", "C", "D", "E", "F", "G", "H",
           "I", "J", "K", "L", "M", "N", "O", "P", "Q", "R", "S", "T", "U", "V", "W", "X", "Y",
           "Z"}
isalnum(c) == isalpha(c) \/ isdigit(c)
isspace(c) == c \in {" ", "\n", "\t"}

Token(type, value, line, column) ==
    [type |-> type, value |-> value, line |-> line, column |-> column]

LexUnterminatedString  == "NoxySyntaxError: String não terminada - esperado '\"'"
LexUnterminatedBrace   == "NoxySyntaxError: F-string não terminada - esperado '}'"
LexUnterminatedFString == "NoxySyntaxError: F-string não terminada - esperado '\"'"
LexInvalidCharacter    == "NoxySyntaxError: Caractere inválido"

\* Lexer.__init__
Lexer(text) ==
    [source |-> text, position |-> 0, line |-> 1, column |-> 1, tokens |-> <<>>,
     error |-> "none"]

current_char(lx) == IF lx.position < Len(lx.source) THEN lx.source[lx.position + 1] ELSE ""
peek_char(lx) == IF lx.position + 1 < Len(lx.source) THEN lx.source[lx.position + 2] ELSE ""

\* Lexer._advance
lexer_advance(lx) ==
    IF lx.position < Len(lx.source) /\ lx.source[lx.position + 1] = "\n"
    THEN [lx EXCEPT !.line = @ + 1, !.column = 1, !.position = @ + 1]
    ELSE [lx EXCEPT !.column = @ + 1, !.position = @ + 1]

append_token(lx, type, value, line, column) ==
    [lx EXCEPT !.tokens = Append(@, Token(type, value, line, column))]

lexer_raise(lx, e) == [lx EXCEPT !.error = e]

\* the rest of a line comment
RECURSIVE skip_comment(_)
skip_comment(lx) ==
    IF lx.position < Len(lx.source) /\ current_char(lx) # "\n"
    THEN skip_comment(lexer_advance(lx))
    ELSE lx

\* Lexer._skip_whitespace_and_comments
RECURSIVE skip_whitespace_and_comments(_)
skip_whitespace_and_comments(lx) ==
    IF lx.position >= Len(lx.source) THEN lx
    ELSE IF isspace(current_char(lx)) THEN skip_whitespace_and_comments(lexer_advance(lx))
    ELSE IF lx.position + 1 < Len(lx.source) /\ current_char(lx) = "/" /\ peek_char(lx) = "/"
    THEN skip_whitespace_and_comments(skip_comment(lx))
    ELSE lx

\* the character an escape sequence stands for ("NUL" is chr(0))
escape(c) ==
    CASE c = "n" -> "\n"
      [] c = "t" -> "\t"
      [] c = "0" -> "NUL"
      [] OTHER -> c

\* the loop of _read_string: [lx, value]
RECURSIVE string_body(_, _)
string_body(lx, value) ==
    IF lx.position < Len(lx.source) /\ current_char(lx) # "\""
    THEN IF current_char(lx) = "\\"
         THEN IF lexer_advance(lx).position < Len(lx.source)
              THEN string_body(lexer_advance(lexer_advance(lx)),
                               Append(value, escape(current_char(lexer_advance(lx)))))
              ELSE string_body(lexer_advance(lx), value)
         ELSE string_body(lexer_advance(lx), Append(value, current_char(lx)))
    ELSE [lx |-> lx, value |-> value]

\* the end of _read_string and of _read_fstring: the closing quote, the token
close_quote(type, start_column, body, value, e) ==
    IF body.lx.error # "none" THEN body.lx
    ELSE IF body.lx.position < Len(body.lx.source)
    THEN append_token(lexer_advance(body.lx), type, value, lexer_advance(body.lx).line,
                      start_column)
    ELSE lexer_raise(body.lx, e)

\* Lexer._read_string
read_string_body(start_column, body) ==
    close_quote("STRING", start_column, body, body.value, LexUnterminatedString)

read_string(lx) == read_string_body(lx.column, string_body(lexer_advance(lx), <<>>))

\* str.strip()
RECURSIVE lstrip(_)
lstrip(text) == IF text # <<>> /\ isspace(Head(text)) THEN lstrip(Tail(text)) ELSE text
RECURSIVE rstrip(_)
rstrip(text) ==
    IF text # <<>> /\ isspace(text[Len(text)]) THEN rstrip(SubSeq(text, 1, Len(text) - 1))
    ELSE text
strip(text) == rstrip(lstrip(text))

\* the parts of an f-string: a literal text, ('EXPR', text) or
\* ('EXPR_FORMAT', text, format)
StrPart(text) == [kind |-> "str", text |-> text, format |-> <<>>]
ExprPart(text, format) ==
    [kind |-> IF format # <<>> THEN "EXPR_FORMAT" ELSE "EXPR", text |-> text, format |-> format]

\* expr_content and format_spec of the text between the braces
brace_part(expr_content) ==
    IF \E i \in DOMAIN expr_content : expr_content[i] = ":"
    THEN LET colon == CHOOSE i \in DOMAIN expr_content :
                         /\ expr_content[i] = ":"
                         /\ \A j \in 1..(i - 1) : expr_content[j] # ":"
         IN  ExprPart(strip(SubSeq(expr_content, 1, colon - 1)),
                      strip(SubSeq(expr_content, colon + 1, Len(expr_content))))
    ELSE ExprPart(expr_content, <<>>)

\* the loop over the text between the braces: [lx, text, count]
RECURSIVE brace_body(_, _, _)
brace_body(lx, expr_text, brace_count) ==
    IF lx.position < Len(lx.source) /\ brace_count > 0
    THEN LET count == CASE current_char(lx) = "{" -> brace_count + 1
                        [] current_char(lx) = "}" -> brace_count - 1
                        [] OTHER -> brace_count
         IN  brace_body(lexer_advance(lx),
                        IF count > 0 THEN Append(expr_text, current_char(lx)) ELSE expr_text,
                        count)
    ELSE [lx |-> lx, text |-> expr_text, count |-> brace_count]

flush(parts, current_text) ==
    IF current_text # <<>> THEN Append(parts, StrPart(current_text)) ELSE parts

\* the loop of _read_fstring: [lx, value] with value the parts
RECURSIVE fstring_body(_, _, _)
fstring_braces(braces, parts) ==
    IF braces.count > 0
    THEN [lx |-> lexer_raise(braces.lx, LexUnterminatedBrace), value |-> parts]
    ELSE fstring_body(braces.lx, Append(parts, brace_part(strip(braces.text))), <<>>)

fstring_body(lx, parts, current_text) ==
    IF lx.position < Len(lx.source) /\ current_char(lx) # "\""
    THEN IF current_char(lx) = "{"
         THEN fstring_braces(brace_body(lexer_advance(lx), <<>>, 1), flush(parts, current_text))
         ELSE IF current_char(lx) = "\\"
         THEN IF lexer_advance(lx).position < Len(lx.source)
              THEN fstring_body(lexer_advance(lexer_advance(lx)), parts,
                                Append(current_text, escape(current_char(lexer_advance(lx)))))
              ELSE fstring_body(lexer_advance(lx), parts, current_text)
         ELSE fstring_body(lexer_advance(lx), parts, Append(current_text, current_char(lx)))
    ELSE [lx |-> lx, value |-> flush(parts, current_text)]

\* Lexer._read_fstring
read_fstring_body(start_column, body) ==
    close_quote("FSTRING", start_column, body, body.value, LexUnterminatedFString)

read_fstring(lx) ==
    read_fstring_body(lx.column, fstring_body(lexer_advance(lexer_advance(lx)), <<>>, <<>>))

\* int(number_str)
DigitValue(c) ==
    CASE c = "0" -> 0 [] c = "1" -> 1 [] c = "2" -> 2 [] c = "3" -> 3 [] c = "4" -> 4
      [] c = "5" -> 5 [] c = "6" -> 6 [] c = "7" -> 7 [] c = "8" -> 8 [] c = "9" -> 9
RECURSIVE int(_)
int(number_str) ==
    IF number_str = <<>> THEN 0
    ELSE 10 * int(SubSeq(number_str, 1, Len(number_str) - 1))
            + DigitValue(number_str[Len(number_str)])

\* the loop of _read_number: [lx, value, has_dot]
RECURSIVE number_body(_, _, _)
number_body(lx, number_str, has_dot) ==
    IF lx.position < Len(lx.source) /\ (isdigit(current_char(lx)) \/ current_char(lx) = ".")
          /\ ~(current_char(lx) = "." /\ has_dot)
    THEN number_body(lexer_advance(lx), Append(number_str, current_char(lx)),
                     has_dot \/ current_char(lx) = ".")
    ELSE [lx |-> lx, value |-> number_str, has_dot |-> has_dot]

\* Lexer._read_number (a FLOAT token keeps the text float() is given)
read_number_body(start_column, body) ==
    IF body.has_dot
    THEN append_token(body.lx, "FLOAT", body.value, body.lx.line, start_column)
    ELSE append_token(body.lx, "NUMBER", int(body.value), body.lx.line, start_column)

read_number(lx) == read_number_body(lx.column, number_body(lx, <<>>, FALSE))

\* the table keywords of _read_identifier
keywords(identifier) ==
    CASE identifier = <<"l", "e", "t">> -> "LET"
      [] identifier = <<"g", "l", "o", "b", "a", "l">> -> "GLOBAL"
      [] identifier = <<"i", "f">> -> "IF"
      [] identifier = <<"t", "h", "e", "n">> -> "THEN"
      [] identifier = <<"e", "l", "s", "e">> -> "ELSE"
      [] identifier = <<"e", "n", "d">> -> "END"
      [] identifier = <<"w", "h", "i", "l", "e">> -> "WHILE"
      [] identifier = <<"d", "o">> -> "DO"
      [] identifier = <<"p", "r", "i", "n", "t">> -> "PRINT"
      [] identifier = <<"f", "u", "n", "c">> -> "FUNC"
      [] identifier = <<"r", "e", "t", "u", "r", "n">> -> "RETURN"
      [] identifier = <<"i", "n", "t">> -> "INT"
      [] identifier = <<"f", "l", "o", "a", "t">> -> "FLOAT_TYPE"
      [] identifier = <<"s", "t", "r", "i", "n", "g">> -> "STRING_TYPE"
      [] identifier = <<"s", "t", "r">> -> "STR_TYPE"
      [] identifier = <<"v", "o", "i", "d">> -> "VOID"
      [] identifier = <<"b", "o", "o", "l">> -> "BOOL"
      [] identifier = <<"t", "r", "u", "e">> -> "TRUE"
      [] identifier = <<"f", "a", "l", "s", "e">> -> "FALSE"
      [] identifier = <<"n", "u", "l", "l">> -> "NULL"
      [] identifier = <<"s", "t", "r", "u", "c", "t">> -> "STRUCT"
      [] identifier = <<"r", "e", "f">> -> "REF"
      [] identifier = <<"z", "e", "r", "o", "s">> -> "ZEROS"
      [] identifier = <<"b", "r", "e", "a", "k">> -> "BREAK"
      [] identifier = <<"u", "s", "e">> -> "USE"
      [] identifier = <<"s", "e", "l", "e", "c", "t">> -> "SELECT"
      [] OTHER -> "IDENTIFIER"

\* the loop of _read_identifier: [lx, value]
RECURSIVE identifier_body(_, _)
identifier_body(lx, identifier) ==
    IF lx.position < Len(lx.source) /\ (isalnum(current_char(lx)) \/ current_char(lx) = "_")
    THEN identifier_body(lexer_advance(lx), Append(identifier, current_char(lx)))
    ELSE [lx |-> lx, value |-> identifier]

\* Lexer._read_identifier
read_identifier_body(start_column, body) ==
    append_token(body.lx, keywords(body.value), body.value, body.lx.line, start_column)

read_identifier(lx) == read_identifier_body(lx.column, identifier_body(lx, <<>>))

\* the tables two_char_ops and operators of _read_operator
two_char_ops(two_char) ==
    CASE two_char = <<">", "=">> -> "GTE"
      [] two_char = <<"<", "=">> -> "LTE"
      [] two_char = <<"=", "=">> -> "EQ"
      [] two_char = <<"!", "=">> -> "NEQ"
      [] two_char = <<"-", ">">> -> "ARROW"
      [] two_char = <<"+", "+">> -> "CONCAT"
      [] OTHER -> "none"

operators(char) ==
    CASE char = "+" -> "PLUS"     [] char = "-" -> "MINUS"    [] char = "*" -> "MULTIPLY"
      [] char = "/" -> "DIVIDE"   [] char = "%" -> "MODULO"   [] char = "=" -> "ASSIGN"
      [] char = ">" -> "GT"       [] char = "<" -> "LT"       [] char = "(" -> "LPAREN"
      [] char = ")" -> "RPAREN"   [] char = "[" -> "LBRACKET" [] char = "]" -> "RBRACKET"
      [] char = "{" -> "LBRACE"   [] char = "}" -> "RBRACE"   [] char = "," -> "COMMA"
      [] char = ":" -> "COLON"    [] char = ";" -> "SEMICOLON" [] char = "." -> "DOT"
      [] char = "&" -> "AND"      [] char = "|" -> "OR"       [] char = "!" -> "NOT"
      [] OTHER -> "none"

\* Lexer._read_operator
read_operator(lx) ==
    IF two_char_ops(<<current_char(lx), peek_char(lx)>>) # "none"
    THEN lexer_advance(lexer_advance(
             append_token(lx, two_char_ops(<<current_char(lx), peek_char(lx)>>),
                          <<current_char(lx), peek_char(lx)>>, lx.line, lx.column)))
    ELSE IF operators(current_char(lx)) # "none"
    THEN lexer_advance(append_token(lx, operators(current_char(lx)), <<current_char(lx)>>,
                                    lx.line, lx.column))
    ELSE lexer_raise(lx, LexInvalidCharacter)

\* which reader the loop of tokenize calls at the current character
Reader(lx) ==
    IF lx.position >= Len(lx.source) THEN "eof"
    ELSE IF current_char(lx) = "f" /\ peek_char(lx) = "\"" THEN "fstring"
    ELSE IF current_char(lx) = "\"" THEN "string"
    ELSE IF isdigit(current_char(lx)) THEN "number"
    ELSE IF isalpha(current_char(lx)) \/ current_char(lx) = "_" THEN "identifier"
    ELSE "operator"

\* one turn of the loop of tokenize, after the whitespace was skipped
read(lx) ==
    CASE Reader(lx) = "fstring" -> read_fstring(lx)
      [] Reader(lx) = "string" -> read_string(lx)
      [] Reader(lx) = "number" -> read_number(lx)
      [] Reader(lx) = "identifier" -> read_identifier(lx)
      [] Reader(lx) = "operator" -> read_operator(lx)
      [] Reader(lx) = "eof" -> append_token(lx, "EOF", <<>>, lx.line, lx.column)

\* Lexer.tokenize
RECURSIVE tokenize(_)
tokenize(lx) ==
    IF lx.error # "none" THEN lx
    ELSE IF Reader(skip_whitespace_and_comments(lx)) = "eof"
    THEN read(skip_whitespace_and_comments(lx))
    ELSE tokenize(read(skip_whitespace_and_comments(lx)))


(***************************************************************************)
(* PARSER.  Parser.position counts from 0.  A node is the record of its    *)
(* class with the attributes line and column of ASTNode.  The statements   *)
(* and expressions parsed are those of the sources below: `use`, array and *)
(* struct-field syntax, `ref` and casts have branches of their own.        *)
(***************************************************************************)
None == 0             \* line, column after ASTNode.__init__
NoAttribute == 0 - 1  \* line, column of a node whose class never runs ASTNode.__init__

\* a node as its constructor leaves it
Constructed(node) ==
    node @@ (IF node.kind \in InitialisedClasses THEN [line |-> None, column |-> None]
             ELSE [line |-> NoAttribute, column |-> NoAttribute])

\* ASTNode.set_location; CallNode's two assignments
set_location(node, token) == [line |-> token.line, column |-> token.column] @@ node

\* ASTNode.has_location (an AttributeError for a node without the attributes)
has_location(node) == node.line \notin {None, NoAttribute} /\ node.column \notin {None, NoAttribute}

SyntaxExpected(what) == "NoxySyntaxError: Esperado"
SyntaxUnexpectedToken == "NoxySyntaxError: Token inesperado"
SyntaxFString == "NoxySyntaxError: Erro ao parsear expressão em f-string"

\* Parser.__init__
Parser(tokens) ==
    [tokens |-> tokens, position |-> 0, in_function_depth |-> 0, defined_functions |-> {},
     defined_structs |-> {}, error |-> "none"]

current_token(p) == p.tokens[p.position + 1]
is_at_end(p) == current_token(p).type = "EOF"
parser_advance(p) == IF is_at_end(p) THEN p ELSE [p EXCEPT !.position = @ + 1]
check(p, token_type) == current_token(p).type = token_type
parser_raise(p, e) == [p EXCEPT !.error = e]

\* `if not self._match(T): self._error(...)`
expect(p, token_type) ==
    IF p.error # "none" THEN p
    ELSE IF check(p, token_type) THEN parser_advance(p)
    ELSE parser_raise(p, SyntaxExpected(token_type))

NoNode == [kind |-> "none"]
Parsed(p, node) == [p |-> p, node |-> node]
Failed(p) == Parsed(p, NoNode)

\* Parser._parse_type: [p, type]
parse_type(p) ==
    IF p.error # "none" THEN [p |-> p, type |-> NoType]
    ELSE CASE check(p, "INT") -> [p |-> parser_advance(p), type |-> IntType]
           [] check(p, "FLOAT_TYPE") -> [p |-> parser_advance(p), type |-> Type("float", "", 0)]
           [] check(p, "STRING_TYPE") \/ check(p, "STR_TYPE") ->
                [p |-> parser_advance(p), type |-> StringType]
           [] check(p, "VOID") -> [p |-> parser_advance(p), type |-> VoidType]
           [] check(p, "BOOL") -> [p |-> parser_advance(p), type |-> Type("bool", "", 0)]
           [] check(p, "IDENTIFIER") ->
                [p |-> parser_advance(p), type |-> StructType(current_token(p).value)]
           [] OTHER -> [p |-> parser_raise(p, SyntaxExpected("tipo")), type |-> NoType]

\* the operators of _parse_or, _parse_and, _parse_comparison, _parse_term and
\* _parse_factor
LevelOperators(level) ==
    CASE level = 1 -> {"OR"}
      [] level = 2 -> {"AND"}
      [] level = 3 -> {"GT", "LT", "GTE", "LTE", "EQ", "NEQ"}
      [] level = 4 -> {"PLUS", "MINUS", "CONCAT"}
      [] level = 5 -> {"MULTIPLY", "DIVIDE", "MODULO"}

known_functions ==
    { <<"p", "r", "i", "n", "t", "f">>, <<"m", "a", "l", "l", "o", "c">>, <<"f", "r", "e", "e">>,
      <<"s", "t", "r", "l", "e", "n">>, <<"s", "t", "r", "c", "p", "y">>,
      <<"s", "t", "r", "c", "a", "t">>, <<"t", "o", "_", "s", "t", "r">>,
      <<"t", "o", "_", "i", "n", "t">>, <<"t", "o", "_", "f", "l", "o", "a", "t">>,
      <<"o", "r", "d">>, <<"l", "e", "n", "g", "t", "h">>,
      <<"a", "r", "r", "a", "y", "_", "t", "o", "_", "s", "t", "r">> }

\* the node of `name(args)`: a call carries the location of the identifier
call_or_constructor(p, callee, args) ==
    IF callee.name \notin known_functions \cup p.defined_functions
          /\ callee.name \in p.defined_structs
    THEN Constructed(StructConstructorNode(callee.name, args))
    ELSE set_location(Constructed(CallNode(callee.name, args)), callee)

\* every rule of the grammar: [p, node]; node is a list for the rules that
\* collect one
RECURSIVE parse_rule(_, _, _)

\* what a rule does with the result r of the rule it called
built(r, Make(_)) == IF r.p.error # "none" THEN Failed(r.p) ELSE Parsed(r.p, Make(r.node))
then_expect(r, token_type) ==
    IF r.p.error # "none" THEN Failed(r.p) ELSE Parsed(expect(r.p, token_type), r.node)
continue(rule, r) == IF r.p.error # "none" THEN Failed(r.p) ELSE parse_rule(rule, r.p, r.node)
collect(rule, a, r) ==
    IF r.p.error # "none" THEN Failed(r.p)
    ELSE parse_rule(rule, r.p, [a EXCEPT !.acc = Append(@, r.node)])

binary_right(level, left, operator, r) ==
    IF r.p.error # "none" THEN Failed(r.p)
    ELSE parse_rule("binary_rest", r.p,
             [level |-> level,
              left |-> Constructed(BinaryOpNode(left,
                           IF operator = "CONCAT" THEN "PLUS" ELSE operator, r.node))])

binary_left(level, r) ==
    IF r.p.error # "none" THEN Failed(r.p)
    ELSE parse_rule("binary_rest", r.p, [level |-> level, left |-> r.node])

\* one argument of a call, and the comma after it
argument(a, r) ==
    IF r.p.error # "none" THEN Failed(r.p)
    ELSE parse_rule("arguments",
             IF check(r.p, "RPAREN") THEN r.p ELSE expect(r.p, "COMMA"),
             [a EXCEPT !.acc = Append(@, r.node)])

\* one `name: type` of a parameter list or of a struct, and the comma after it
declarator(rule, closing, a, name, t) ==
    IF t.p.error # "none" THEN Failed(t.p)
    ELSE parse_rule(rule,
             IF check(t.p, closing) THEN t.p ELSE expect(t.p, "COMMA"),
             [a EXCEPT !.acc = Append(@, [name |-> name, type |-> t.type])])

\* AssignmentNode(identifier, var_type, value, is_global)
assignment(name, t, is_global) ==
    built(parse_rule("expression", expect(t.p, "ASSIGN"), 0),
          LAMBDA value : Constructed(AssignmentNode(name, t.type, value, is_global)))

\* the else branch and the closing end of _parse_if
if_else(condition, then_branch) ==
    IF then_branch.p.error # "none" THEN Failed(then_branch.p)
    ELSE IF check(then_branch.p, "ELSE")
    THEN built(then_expect(parse_rule("block", parser_advance(then_branch.p),
                               [until |-> {"END"}, match_end |-> FALSE, acc |-> <<>>]),
                           "END"),
               LAMBDA else_branch :
                   Constructed(IfNode(condition, then_branch.node, else_branch)))
    ELSE built(Parsed(expect(then_branch.p, "END"), NoNode),
               LAMBDA none : Constructed(IfNode(condition, then_branch.node, <<>>)))

\* the return type of a function and its body; in_function_depth is raised
\* while the body is parsed
function_body(name, params, t) ==
    IF t.p.error # "none" THEN Failed(t.p)
    ELSE built(parse_rule("block", [t.p EXCEPT !.in_function_depth = @ + 1],
                          [until |-> {}, match_end |-> TRUE, acc |-> <<>>]),
               LAMBDA body : Constructed(FunctionNode(name, params, t.type, body)))

function_defined(name, r) ==
    IF r.p.error # "none" THEN r
    ELSE Parsed([r.p EXCEPT !.in_function_depth = @ - 1,
                            !.defined_functions = @ \cup {name}], r.node)

struct_defined(name, r) ==
    IF r.p.error # "none" THEN r
    ELSE Parsed([r.p EXCEPT !.defined_structs = @ \cup {name}], r.node)

\* the sub-lexer's tokens, its EOF token replaced by Token(EOF, "", 1, 1)
expression_tokens(lx) ==
    [i \in DOMAIN lx.tokens |-> IF lx.tokens[i].type = "EOF" THEN Token("EOF", <<>>, 1, 1)
                                ELSE lx.tokens[i]]

\* one expression of an f-string: its text has a Lexer and a Parser of its
\* own; whatever they raise, and an empty text, is a syntax error
fstring_expression(p, a, sub) ==
    IF sub.error # "none" \/ Len(sub.tokens) = 1 THEN Failed(parser_raise(p, SyntaxFString))
    ELSE IF parse_rule("expression", Parser(expression_tokens(sub)), 0).p.error # "none"
    THEN Failed(parser_raise(p, SyntaxFString))
    ELSE parse_rule("fstring", p,
             [a EXCEPT !.parts = Tail(@),
                       !.acc = Append(@, parse_rule("expression",
                                             Parser(expression_tokens(sub)), 0).node)])

parse_rule(rule, p, a) ==
    IF p.error # "none" THEN Failed(p)
    ELSE CASE rule = "statement" ->
           (CASE check(p, "LET") ->
                   parse_rule("assignment", parser_advance(p), p.in_function_depth = 0)
              [] check(p, "GLOBAL") -> parse_rule("assignment", parser_advance(p), TRUE)
              [] check(p, "PRINT") ->
                   \* _parse_print
                   built(then_expect(parse_rule("expression",
                                         expect(parser_advance(p), "LPAREN"), 0), "RPAREN"),
                         LAMBDA expr : Constructed(PrintNode(expr)))
              [] check(p, "IF") -> continue("if", parse_rule("expression", parser_advance(p), 0))
              [] check(p, "WHILE") ->
                   continue("while", parse_rule("expression", parser_advance(p), 0))
              [] check(p, "FUNC") -> parse_rule("function", parser_advance(p), 0)
              [] check(p, "RETURN") -> parse_rule("return", parser_advance(p), 0)
              [] check(p, "STRUCT") -> parse_rule("struct", parser_advance(p), 0)
              [] check(p, "BREAK") ->
                   \* _parse_break
                   Parsed(parser_advance(p), set_location(Constructed(BreakNode), current_token(p)))
              [] check(p, "IDENTIFIER") /\ p.position + 1 < Len(p.tokens)
                     /\ p.tokens[p.position + 2].type = "ASSIGN" ->
                   \* _parse_reassignment
                   assignment(current_token(p).value,
                              [p |-> parser_advance(p), type |-> NoType], FALSE)
              [] OTHER -> parse_rule("expression", p, 0))
        [] rule = "assignment" ->
           \* _parse_assignment, a is is_global
           IF ~check(p, "IDENTIFIER") THEN Failed(parser_raise(p, SyntaxExpected("IDENTIFIER")))
           ELSE assignment(current_token(p).value,
                           IF check(parser_advance(p), "COLON")
                           THEN parse_type(parser_advance(parser_advance(p)))
                           ELSE [p |-> parser_advance(p), type |-> NoType],
                           a)
        [] rule = "block" ->
           \* the statement loops: `while not self._check(...)` for a.until,
           \* `while not self._match(END)` for a.match_end
           IF a.match_end /\ check(p, "END") THEN Parsed(parser_advance(p), a.acc)
           ELSE IF is_at_end(p) \/ current_token(p).type \in a.until THEN Parsed(p, a.acc)
           ELSE collect("block", a, parse_rule("statement", p, 0))
        [] rule = "if" ->
           \* _parse_if, a the condition
           if_else(a, parse_rule("block", expect(p, "THEN"),
                                 [until |-> {"END", "ELSE"}, match_end |-> FALSE, acc |-> <<>>]))
        [] rule = "while" ->
           \* _parse_while, a the condition
           built(parse_rule("block", expect(p, "DO"),
                            [until |-> {}, match_end |-> TRUE, acc |-> <<>>]),
                 LAMBDA body : Constructed(WhileNode(a, body)))
        [] rule = "function" ->
           \* _parse_function
           IF ~check(p, "IDENTIFIER") THEN Failed(parser_raise(p, SyntaxExpected("IDENTIFIER")))
           ELSE parse_rule("parameters", expect(parser_advance(p), "LPAREN"),
                           [name |-> current_token(p).value, acc |-> <<>>])
        [] rule = "parameters" ->
           IF ~check(p, "RPAREN") /\ ~is_at_end(p)
           THEN IF ~check(p, "IDENTIFIER")
                THEN Failed(parser_raise(p, SyntaxExpected("IDENTIFIER")))
                ELSE declarator("parameters", "RPAREN", a, current_token(p).value,
                                parse_type(expect(parser_advance(p), "COLON")))
           ELSE function_defined(a.name,
                    function_body(a.name, a.acc,
                        IF check(expect(p, "RPAREN"), "ARROW")
                        THEN parse_type(parser_advance(expect(p, "RPAREN")))
                        ELSE [p |-> expect(p, "RPAREN"), type |-> VoidType]))
        [] rule = "return" ->
           \* _parse_return
           IF ~check(p, "SEMICOLON") /\ ~check(p, "END")
           THEN built(parse_rule("expression", p, 0), LAMBDA value : Constructed(ReturnNode(value)))
           ELSE Parsed(p, Constructed(ReturnVoidNode))
        [] rule = "struct" ->
           \* _parse_struct_definition
           IF ~check(p, "IDENTIFIER") THEN Failed(parser_raise(p, SyntaxExpected("IDENTIFIER")))
           ELSE parse_rule("fields", parser_advance(p),
                           [name |-> current_token(p).value, acc |-> <<>>])
        [] rule = "fields" ->
           IF ~check(p, "END") /\ ~is_at_end(p)
           THEN IF ~check(p, "IDENTIFIER")
                THEN Failed(parser_raise(p, SyntaxExpected("IDENTIFIER")))
                ELSE declarator("fields", "END", a, current_token(p).value,
                                parse_type(expect(parser_advance(p), "COLON")))
           ELSE struct_defined(a.name,
                    built(Parsed(expect(p, "END"), NoNode),
                          LAMBDA none : Constructed(StructDefinitionNode(a.name, a.acc))))
        [] rule = "expression" -> parse_rule("binary", p, 1)
        [] rule = "binary" ->
           \* _parse_or (level 1) .. _parse_factor (level 5): the left operand
           binary_left(a, IF a = 5 THEN parse_rule("unary", p, 0)
                          ELSE parse_rule("binary", p, a + 1))
        [] rule = "binary_rest" ->
           \* the loop `while self._match(...)` of the level
           IF current_token(p).type \in LevelOperators(a.level)
           THEN binary_right(a.level, a.left, current_token(p).type,
                    IF a.level = 5 THEN parse_rule("unary", parser_advance(p), 0)
                    ELSE parse_rule("binary", parser_advance(p), a.level + 1))
           ELSE Parsed(p, a.left)
        [] rule = "unary" ->
           \* _parse_unary
           IF check(p, "MINUS")
           THEN built(parse_rule("unary", parser_advance(p), 0),
                      LAMBDA expr : Constructed(BinaryOpNode(Constructed(NumberNode(0)),
                                                             "MINUS", expr)))
           ELSE IF check(p, "NOT")
           THEN built(parse_rule("unary", parser_advance(p), 0),
                      LAMBDA expr : Constructed(UnaryOpNode(expr)))
           ELSE continue("postfix", parse_rule("primary", p, 0))
        [] rule = "postfix" ->
           \* the loop of _parse_postfix, a the expression so far
           IF check(p, "LPAREN")
           THEN IF a.kind = "Identifier"
                THEN parse_rule("arguments", parser_advance(p), [callee |-> a, acc |-> <<>>])
                ELSE Failed(parser_raise(p, SyntaxExpected("função")))
           ELSE Parsed(p, a)
        [] rule = "arguments" ->
           IF ~check(p, "RPAREN") /\ ~is_at_end(p)
           THEN argument(a, parse_rule("expression", p, 0))
           ELSE parse_rule("postfix", expect(p, "RPAREN"),
                           call_or_constructor(p, a.callee, a.acc))
        [] rule = "primary" ->
           \* _parse_primary
           (CASE check(p, "NUMBER") ->
                   Parsed(parser_advance(p), Constructed(NumberNode(current_token(p).value)))
              [] check(p, "FLOAT") ->
                   Parsed(parser_advance(p), Constructed(FloatNode(current_token(p).value)))
              [] check(p, "STRING") -> Parsed(parser_advance(p), Constructed(StringNode))
              [] check(p, "FSTRING") ->
                   parse_rule("fstring", parser_advance(p),
                              [token |-> current_token(p), parts |-> current_token(p).value,
                               acc |-> <<>>])
              [] check(p, "TRUE") -> Parsed(parser_advance(p), Constructed(BooleanNode(TRUE)))
              [] check(p, "FALSE") -> Parsed(parser_advance(p), Constructed(BooleanNode(FALSE)))
              [] check(p, "NULL") ->
                   Parsed(parser_advance(p), Constructed(Node("Null", "", <<>>, <<>>, <<>>)))
              [] check(p, "IDENTIFIER") \/ check(p, "BOOL") ->
                   Parsed(parser_advance(p),
                          set_location(Constructed(IdentifierNode(current_token(p).value)),
                                       current_token(p)))
              [] check(p, "LPAREN") ->
                   then_expect(parse_rule("expression", parser_advance(p), 0), "RPAREN")
              [] OTHER -> Failed(parser_raise(p, SyntaxUnexpectedToken)))
        [] rule = "fstring" ->
           \* _parse_fstring: the loop over the parts
           IF a.parts = <<>>
           THEN Parsed(p, set_location(Constructed(FStringNode(a.acc)), a.token))
           ELSE IF Head(a.parts).kind = "str"
           THEN parse_rule("fstring", p,
                           [a EXCEPT !.parts = Tail(@), !.acc = Append(@, Constructed(Literal))])
           ELSE fstring_expression(p, a, tokenize(Lexer(Head(a.parts).text)))


(***************************************************************************)
(* The front end: Lexer(source).tokenize(), then Parser(tokens).parse(),   *)
(* one turn of each loop per step.  lex_starts[i] is the offset in the     *)
(* source of the first character of the lexeme of tokens[i].               *)
(***************************************************************************)
MaxSource == 3

\* the characters of the short sources
Alphabet == {"\"", "\n", "f", "1", "+", "{"}

RECURSIVE Texts(_)
Texts(n) ==
    IF n = 0 THEN {<<>>}
    ELSE Texts(n - 1) \cup {Append(t, c) : t \in {u \in Texts(n - 1) : Len(u) = n - 1}, c \in Alphabet}

\* let x: int = 1 + 2
SourceLet ==
    <<"l", "e", "t", " ", "x", ":", " ", "i", "n", "t", " ", "=", " ", "1", " ", "+", " ", "2">>

\* while x do print(1)
SourceWhileNoEnd ==
    <<"w", "h", "i", "l", "e", " ", "x", " ", "d", "o", " ", "p", "r", "i", "n", "t", "(", "1",
      ")">>

\* func f() print(1)
SourceFuncNoEnd ==
    <<"f", "u", "n", "c", " ", "f", "(", ")", " ", "p", "r", "i", "n", "t", "(", "1", ")">>

\* if x then print(1)
SourceIfNoEnd ==
    <<"i", "f", " ", "x", " ", "t", "h", "e", "n", " ", "p", "r", "i", "n", "t", "(", "1", ")">>

\* struct A a: int
SourceStructNoEnd ==
    <<"s", "t", "r", "u", "c", "t", " ", "A", " ", "a", ":", " ", "i", "n", "t">>

\* func f(a: int) -> int return -a end \n print(f(1) * 2)
SourceFunction ==
    <<"f", "u", "n", "c", " ", "f", "(", "a", ":", " ", "i", "n", "t", ")", " ", "-", ">", " ",
      "i", "n", "t", " ", "r", "e", "t", "u", "r", "n", " ", "-", "a", " ", "e", "n", "d", "\n",
      "p", "r", "i", "n", "t", "(", "f", "(", "1", ")", " ", "*", " ", "2", ")">>

\* x = 1 \n while !x do if x > 1 then break else x = 2 end end
SourceLoop ==
    <<"x", " ", "=", " ", "1", "\n", "w", "h", "i", "l", "e", " ", "!", "x", " ", "d", "o", " ",
      "i", "f", " ", "x", " ", ">", " ", "1", " ", "t", "h", "e", "n", " ", "b", "r", "e", "a",
      "k", " ", "e", "l", "s", "e", " ", "x", " ", "=", " ", "2", " ", "e", "n", "d", " ", "e",
      "n", "d">>

\* print(f"a{x}")
SourceFString ==
    <<"p", "r", "i", "n", "t", "(", "f", "\"", "a", "{", "x", "}", "\"", ")">>

\* struct A a: int, b: string end \n let y: A = A(1, "s")
SourceStruct ==
    <<"s", "t", "r", "u", "c", "t", " ", "A", " ", "a", ":", " ", "i", "n", "t", ",", " ", "b",
      ":", " ", "s", "t", "r", "i", "n", "g", " ", "e", "n", "d", "\n", "l", "e", "t", " ", "y",
      ":", " ", "A", " ", "=", " ", "A", "(", "1", ",", " ", "\"", "s", "\"", ")">>

\* print(f"{x")
SourceFStringNoBrace ==
    <<"p", "r", "i", "n", "t", "(", "f", "\"", "{", "x", "\"", ")">>

\* global g: float = 1.5 // g \n func h() let z: bool = true & false end
SourceGlobal ==
    <<"g", "l", "o", "b", "a", "l", " ", "g", ":", " ", "f", "l", "o", "a", "t", " ", "=", " ",
      "1", ".", "5", " ", "/", "/", " ", "g", "\n", "f", "u", "n", "c", " ", "h", "(", ")", " ",
      "l", "e", "t", " ", "z", ":", " ", "b", "o", "o", "l", " ", "=", " ", "t", "r", "u", "e",
      " ", "&", " ", "f", "a", "l", "s", "e", " ", "e", "n", "d">>

FrontPrograms ==
    {SourceLet, SourceWhileNoEnd, SourceFuncNoEnd, SourceIfNoEnd,
     SourceStructNoEnd, SourceFunction, SourceLoop, SourceFString,
     SourceStruct, SourceFStringNoBrace, SourceGlobal}

FrontSources == Texts(MaxSource) \cup FrontPrograms

\* one turn of the loop of tokenize: the whitespace is skipped, then the
\* reader of the current character runs
LexTurn ==
    /\ lexer' = read(skip_whitespace_and_comments(lexer))
    /\ lex_starts' = IF lexer'.error = "none"
                     THEN Append(lex_starts, skip_whitespace_and_comments(lexer).position)
                     ELSE lex_starts
    /\ UNCHANGED <<program, resolverVars, astVars, genVars, rtVars, drvVars>>

LexFString ==
    /\ front_pc = "lexing"
    /\ Reader(skip_whitespace_and_comments(lexer)) = "fstring"
    /\ LexTurn
    /\ front_pc' = IF lexer'.error # "none" THEN "raised" ELSE "lexing"
    /\ UNCHANGED parser

LexString ==
    /\ front_pc = "lexing"
    /\ Reader(skip_whitespace_and_comments(lexer)) = "string"
    /\ LexTurn
    /\ front_pc' = IF lexer'.error # "none" THEN "raised" ELSE "lexing"
    /\ UNCHANGED parser

LexNumber ==
    /\ front_pc = "lexing"
    /\ Reader(skip_whitespace_and_comments(lexer)) = "number"
    /\ LexTurn
    /\ front_pc' = "lexing"
    /\ UNCHANGED parser

LexIdentifier ==
    /\ front_pc = "lexing"
    /\ Reader(skip_whitespace_and_comments(lexer)) = "identifier"
    /\ LexTurn
    /\ front_pc' = "lexing"
    /\ UNCHANGED parser

LexOperator ==
    /\ front_pc = "lexing"
    /\ Reader(skip_whitespace_and_comments(lexer)) = "operator"
    /\ LexTurn
    /\ front_pc' = IF lexer'.error # "none" THEN "raised" ELSE "lexing"
    /\ UNCHANGED parser

\* the EOF token; then Parser(tokens)
LexEnd ==
    /\ front_pc = "lexing"
    /\ Reader(skip_whitespace_and_comments(lexer)) = "eof"
    /\ LexTurn
    /\ front_pc' = "parsing"
    /\ parser' = Parser(lexer'.tokens)

\* one turn of the loop of Parser.parse
ParseStatement ==
    /\ front_pc = "parsing"
    /\ ~is_at_end(parser)
    /\ parser' = parse_rule("statement", parser, 0).p
    /\ program' = IF parser'.error = "none"
                  THEN Append(program, parse_rule("statement", parser, 0).node)
                  ELSE program
    /\ front_pc' = IF parser'.error = "none" THEN "parsing" ELSE "raised"
    /\ UNCHANGED <<lexer, lex_starts, resolverVars, astVars, genVars, rtVars, drvVars>>

\* `return ProgramNode(statements)`
ParseEnd ==
    /\ front_pc = "parsing"
    /\ is_at_end(parser)
    /\ front_pc' = "parsed"
    /\ UNCHANGED <<lexer, lex_starts, parser, program, resolverVars, astVars, genVars, rtVars,
                   drvVars>>

FrontNext ==
    \/ LexFString
    \/ LexString
    \/ LexNumber
    \/ LexIdentifier
    \/ LexOperator
    \/ LexEnd
    \/ ParseStatement
    \/ ParseEnd

FrontInit ==
    /\ ast = <<>>
    /\ use_nodes = <<>>
    /\ loaded_modules = [utils |-> <<>>]
    /\ hash_order = <<>>
    /\ use_pos = 1
    /\ imported_symbols = <<>>
    /\ import_error = FALSE
    /\ GenIdle
    /\ RunIdle
    /\ DrvIdle
    /\ front_pc = "lexing"
    /\ lexer \in {Lexer(text) : text \in FrontSources}
    /\ lex_starts = <<>>
    /\ parser = Parser(<<>>)
    /\ program = <<>>

SpecFront == FrontInit /\ [][FrontNext]_vars


(***************************************************************************)
(* Token positions                                                         *)
(***************************************************************************)
\* the line and the column of the character at `offset` (from 0) of the text
LineOf(text, offset) == 1 + Cardinality({i \in 1..offset : text[i] = "\n"})
ColumnOf(text, offset) ==
    offset + 1 - (CHOOSE b \in 0..offset :
                      /\ b = 0 \/ text[b] = "\n"
                      /\ \A i \in (b + 1)..offset : text[i] # "\n")

\* C14: every token the lexer has produced, of whatever kind, carries the line
\* and the column of the first character of its lexeme in the source text,
\* also when the lexeme is a string or an f-string with line breaks in it.
ClaimC14_TokenPositions ==
    \A i \in DOMAIN lexer.tokens :
        /\ lexer.tokens[i].line = LineOf(lexer.source, lex_starts[i])
        /\ lexer.tokens[i].column = ColumnOf(lexer.source, lex_starts[i])


(***************************************************************************)
(* Node locations                                                          *)
(***************************************************************************)
\* the nodes of a list and all the nodes below them have a line and a column;
\* the literal parts of an f-string are Python strings, not nodes
RECURSIVE Located(_)
Located(nodes) ==
    \A i \in DOMAIN nodes :
        \/ nodes[i].kind = "str"
        \/ /\ has_location(nodes[i])
           /\ Located(nodes[i].kids)
           /\ Located(nodes[i].body)
           /\ Located(nodes[i].orelse)

\* C13: once parse() has returned the program, every node reachable from it
\* (literal, operation, assignment, control statement, call, definition) has a
\* line and a column that are not None.
ClaimC13_NodesLocated == front_pc = "parsed" => Located(program)


(***************************************************************************)
(* Unterminated constructs                                                 *)
(***************************************************************************)
\* the quotes of the text that no backslash escapes
RECURSIVE Quotes(_, _)
Quotes(text, i) ==
    IF i > Len(text) THEN 0
    ELSE IF text[i] = "\\" THEN Quotes(text, i + 2)
    ELSE (IF text[i] = "\"" THEN 1 ELSE 0) + Quotes(text, i + 1)

\* a quote opens a literal that nothing closes
UnterminatedLiteral(text) == Quotes(text, 1) % 2 = 1

TokensOf(tokens, types) == Cardinality({i \in DOMAIN tokens : tokens[i].type \in types})

\* more `if`, `while`, `func` and `struct` than `end`
MissingEnd(tokens) ==
    TokensOf(tokens, {"IF", "WHILE", "FUNC", "STRUCT"}) > TokensOf(tokens, {"END"})

\* C16: no source with an unterminated construct yields an AST: a literal whose
\* closing quote is missing, or an `if`, `while`, `func` or `struct` whose `end`
\* is missing at the end of input, makes the lexer or the parser raise.
ClaimC16_Unterminated ==
    front_pc = "parsed" => ~UnterminatedLiteral(lexer.source) /\ ~MissingEnd(lexer.tokens)


(***************************************************************************)
(* Import keys: two modules that both export f and base, imported whole    *)
(* (`use M`), with `select *`, or by name.                                  *)
(***************************************************************************)
\* utils.nx: the sources above in which f and h have an empty body
ImportUtils ==
    {src \in ModuleSources : src[5].body = <<>> /\ src[7].body = <<>>}

\* extra.nx: `global base: int = 1`, `func f() end`, `func k() -> int return 1 end`
ExtraSource ==
    << AssignmentNode("base", IntType, NumberNode(1), TRUE),
       FunctionNode("f", <<>>, VoidType, <<>>),
       FunctionNode("k", <<>>, IntType, <<ReturnNode(NumberNode(1))>>) >>

ImportNodes ==
    { UseNode(m, <<>>, all) : m \in {"utils", "extra"}, all \in BOOLEAN }
        \cup { UseNode("extra", <<"f">>, FALSE) }

ImportsInit ==
    /\ loaded_modules \in {[utils |-> extract_exported_symbols(src),
                            extra |-> extract_exported_symbols(ExtraSource)]
                              : src \in ImportUtils}
    /\ use_nodes \in SeqsUpTo(ImportNodes, MaxUse)
    /\ use_pos = 1
    /\ imported_symbols = <<>>
    /\ import_error = FALSE
    /\ hash_order = <<>>
    /\ ast = <<>>
    /\ GenIdle
    /\ RunIdle
    /\ DrvIdle
    /\ FrontIdle

SpecImports == ImportsInit /\ [][ProcessImport]_vars

\* the keys a bare `use M` or a `use M select *` must register
Namespace(use_node) == IF use_node.import_all THEN "" ELSE use_node.module_name
Registered(use_node) ==
    {Key(Namespace(use_node), S) : S \in DictKeys(loaded_modules[use_node.module_name])}

\* a use statement that writes the key
Overwrites(use_node, k) ==
    IF use_node.selected_symbols = <<>> THEN k \in Registered(use_node)
    ELSE k.ns = "" /\ k.name \in Range(use_node.selected_symbols)

\* every key a whole-module or select-* import registered holds the symbol of
\* that module, unless a later use statement wrote the key
LastImportWins(pos, imported) ==
    \A i \in 1..(pos - 1) :
        use_nodes[i].selected_symbols = <<>> =>
            \A k \in Registered(use_nodes[i]) :
                (\A j \in (i + 1)..(pos - 1) : ~Overwrites(use_nodes[j], k))
                    => DictGet(imported, k) = DictGet(loaded_modules[use_nodes[i].module_name], k.name)

Emissions(n) ==
    {i \in DOMAIN struct_log :
        struct_log[i].name = n /\ struct_log[i].how \in {"definition", "placeholders"}}

\* C17: a definition goes UNSEEN -> PROCESSING -> DONE and never back: when the
\* struct pass is over, every definition, also one reached again while it was
\* being processed (a cycle), has been emitted exactly once.
ClaimC17_EmittedOnce ==
    gen_pc = "declare" =>
        \A i \in DOMAIN struct_definitions :
            Cardinality(Emissions(struct_definitions[i].name)) = 1


(***************************************************************************)
(* The struct table after the struct pass                                  *)
(***************************************************************************)
\* C18: once the struct pass of generate() is over, no step of generate()
\* adds an entry to the struct table or replaces one, whatever the types and
\* the constructors of the file name.
ClaimC18_StructTableFixed ==
    [][gen_pc # "structs" => struct_types' = struct_types]_vars


(***************************************************************************)
(* break in nested loops                                                   *)
(***************************************************************************)
\* C19: every BreakNode lowered inside while loops branches to the while_end
\* block of the innermost loop around it, also in what is left of an outer
\* body after an inner loop; between the statements of main and of the
\* function bodies, outside every loop, the break target is empty.
ClaimC19_InnermostLoop ==
    /\ \A i \in DOMAIN break_log :
          break_log[i].enclosed =>
              ~break_log[i].raised /\ break_log[i].target = break_log[i].innermost
    /\ gen_error = "none" => break_target = NoBlock

\* main holds a loop in a loop: the break of the inner loop went to the inner
\* while_end, the break after the inner loop to the outer one
WitnessC19_InnermostLoop ==
    /\ gen_error = "none"
    /\ break_target = NoBlock
    /\ \E i, j \in DOMAIN break_log :
          /\ i < j
          /\ break_log[i].function = "main" /\ break_log[j].function = "main"
          /\ Len(break_log[i].loops) = 2 /\ Len(break_log[j].loops) = 1
          /\ break_log[i].target = break_log[i].loops[2]
          /\ break_log[j].target = break_log[i].loops[1]
          /\ break_log[i].target # break_log[j].target


(***************************************************************************)
(* Reassignment                                                            *)
(***************************************************************************)
Stores == {"store_local", "store_global", "copy_elements"}
StoresOf(entry) == {entry.written[i] : i \in {j \in DOMAIN entry.written :
                                                  entry.written[j].op \in Stores}}

\* C20: a reassignment `x = e` whose value was lowered writes the local x of
\* the function being generated when there is one, otherwise the global x,
\* and raises the semantic error when there is neither; it adds no variable
\* and never writes the global x while a local x exists.
ClaimC20_Reassignment ==
    \A i \in DOMAIN assign_log :
        LET a == assign_log[i]
        IN  /\ a.locals_after = a.locals /\ a.globals_after = a.globals
            /\ \A w \in StoresOf(a) : w.s = a.name
            /\ a.name \in a.locals =>
                  /\ \A w \in StoresOf(a) : w.op = "store_local"
                  /\ a.raised = "none" => StoresOf(a) # {}
            /\ a.name \notin a.locals /\ a.name \in a.globals =>
                  /\ \A w \in StoresOf(a) : w.op \in {"store_global", "copy_elements"}
                  /\ a.raised = "none" => StoresOf(a) # {}
            /\ a.name \notin a.locals \cup a.globals =>
                  a.raised = SemUndeclaredVariable /\ a.written = <<>>


(***************************************************************************)
(* Exceptions of the code generator at the caller of compile()             *)
(***************************************************************************)
\* compile() raised, and what it raised came out of LLVMCodeGenerator.generate
GeneratorRaised == drv_entry = "compile" /\ drv_pc = "raised" /\ gen_pc = "raised"

\* C21: an exception raised inside the code generator that is no NoxyError
\* reaches the caller of compile() as a NoxyCodeGenError (with the line and
\* column of the node being lowered when it has a location): what compile()
\* raises after the generator raised is a Noxy error of the generator or one
\* of the two forms of NoxyCodeGenError, never the internal error.
ClaimC21_GeneratorErrors == GeneratorRaised => raised \in GeneratorNoxyErrors


(***************************************************************************)
(* The capacity of the ledger                                              *)
(***************************************************************************)
\* C22: at run time every store into the allocation ledger is at an index
\* below its capacity of 100 slots and the allocation counter never exceeds
\* 100, also when an allocating expression sits in a loop: the counter is the
\* index of the next store, so it is at most 100 and the ledger has at most
\* 100 slots written.
ClaimC22_LedgerBounded ==
    /\ allocation_count <= LedgerCapacity
    /\ Len(allocation_ledger) <= LedgerCapacity
    /\ rt_pc # "crashed"


(***************************************************************************)
(* One body per function                                                   *)
(***************************************************************************)
\* the entry blocks appended to a function of the module
EntryBlocks(fn) ==
    {i \in DOMAIN DictGet(module, fn) : DictGet(module, fn)[i].op = "entry"}

\* C23: a body is generated exactly once per declared function: no function
\* of the module is given a second entry block, also when the same function
\* of a module sits in the import table under two keys (`use M` followed by
\* `use M select f`).
ClaimC23_OneBody == \A fn \in DictKeys(module) : Cardinality(EntryBlocks(fn)) <= 1


(***************************************************************************)
(* The scope a function body leaves behind                                 *)
(***************************************************************************)
\* the loops of generate() that call _generate_function
GeneratingBodies == gen_pc \in {"imported_functions", "functions"}

\* C24: generating a function body restores the enclosing scope: the local
\* variables and the current function are those of before, and the declared
\* type recorded for every global is unchanged, so a parameter or a local
\* named like a global never alters the type later used for the global.
ClaimC24_ScopeRestored ==
    [][(GeneratingBodies /\ gen_error' = "none") =>
          /\ local_vars' = local_vars
          /\ current_function' = current_function
          /\ \A x \in DictKeys(global_vars) :
                DictGet(type_map', x) = DictGet(type_map, x)]_vars


(***************************************************************************)
(* Allocations of function bodies                                          *)
(***************************************************************************)
\* the blocks a string `+` of a function other than main allocated
CalleeBlocks == {ptr \in DOMAIN rt_heap : rt_heap[ptr].fn # "main" /\ rt_heap[ptr].site = "plus"}

\* C25: an allocation site in a function body is registered in the ledger
\* the same way for a function of the file and for an imported function:
\* every string `+` of the module is followed by its registration, and when
\* the program has exited every block such a `+` allocated during a call is
\* in the ledger and was freed once by the cleanup loop of main.
ClaimC25_CalleeAllocations ==
    /\ gen_pc = "done" => \A b \in PlusBuffers : Tracked(b[1], b[2])
    /\ rt_pc = "exited" =>
          \A ptr \in CalleeBlocks : ptr \in Range(allocation_ledger) /\ TimesFreed(ptr) = 1


(***************************************************************************)
(* Sized array fields of struct type                                       *)
(***************************************************************************)
\* a definition whose fields are all int: its layout needs no other struct
PlainStruct(n) ==
    /\ Defined(n)
    /\ \A f \in Range(FirstNamed(struct_definitions, n)[1].fields) : f.type.t = "int"

\* field k of definition a is a sized array of a plain struct
SizedArrayField(a, k) ==
    /\ a.fields[k].type.t = "array"
    /\ a.fields[k].type.size # 0
    /\ PlainStruct(a.fields[k].type.name)

\* C26: for a struct A with a sized array field f: B[n], B is processed
\* before A whatever the textual order of the two definitions, and the field
\* is lowered as n inline copies of the layout of B, never as an array of the
\* empty placeholder.
ClaimC26_ArrayFieldOrder ==
    gen_pc # "structs" =>
        \A a \in Range(struct_definitions) :
            \A k \in DOMAIN a.fields :
                (a = FirstNamed(struct_definitions, a.name)[1] /\ SizedArrayField(a, k)) =>
                    \E j \in DefinitionIndex(a.name) :
                        /\ \E i \in DefinitionIndex(a.fields[k].type.name) : i < j
                        /\ struct_log[j].layout[k]
                              # <<"array", OpaqueLayout, a.fields[k].type.size>>


(***************************************************************************)
(* `let` inside a top-level if or while                                    *)
(***************************************************************************)
\* the names declared by a `let` (marked global by the parser: function
\* depth 0) inside a top-level if or while
NestedLets ==
    {n.name : n \in {x \in UNION {AllNodes(stmt) : stmt \in {t \in Range(ast) : t.kind \in {"If", "While"}}} :
                        x.kind = "Assignment" /\ x.is_global /\ x.var_type # NoType}}

\* C27: a `let` inside a top-level if or while is a module global like a
\* top-level `let`: the declaration pass declares it, and a function body
\* that reads it is compiled (the read is not refused as an undeclared
\* variable).
ClaimC27_NestedLetIsGlobal ==
    /\ gen_pc \in {"main", "statements", "functions", "done"}
          => NestedLets \subseteq DictKeys(global_vars)
    /\ (NestedLets # {} /\ GeneratorRaised) => raised # SemUndeclaredVariable


(***************************************************************************)
(* Type annotations and assignment targets in the import closure           *)
(***************************************************************************)
\* the struct a type names
StructNamed(type) == IF type.t \in {"struct", "ref", "array"} THEN {type.name} ELSE {}

\* the structs named by the type annotations of a function: parameters,
\* return type, the `let` of its body
AnnotatedStructs(func_node) ==
    UNION {StructNamed(param.type) : param \in Range(func_node.params)}
        \cup StructNamed(func_node.return_type)
        \cup UNION {StructNamed(n.var_type)
                      : n \in {x \in AllNodesOf(func_node.body) : x.kind = "Assignment"}}

\* the names a function assigns to (`x = e`, `arr[i] = e`, `s.field = e`)
\* that are neither parameters nor locals of its own
AssignedNames(func_node) ==
    {n.name : n \in {x \in AllNodesOf(func_node.body) :
                        \/ x.kind \in {"ArrayAssignment", "StructAssignment"}
                        \/ x.kind = "Assignment" /\ x.var_type = NoType}}
        \ ({param.name : param \in Range(func_node.params)}
              \cup {n.name : n \in {x \in AllNodesOf(func_node.body) :
                                      x.kind = "Assignment" /\ x.var_type # NoType}})

\* C28: after `use M select f`, every struct of M named in a type annotation
\* of an imported function (parameter, return type, local let) and every
\* global of M the function only assigns to is in the import table too.
ClaimC28_AnnotationsImported ==
    (FirstUseSelectsExports /\ use_pos = 2) =>
        \A i \in DOMAIN imported_symbols :
            imported_symbols[i].val.type = "function" =>
                UnprefixedKeys((AnnotatedStructs(imported_symbols[i].val.node)
                                  \cup AssignedNames(imported_symbols[i].val.node))
                               \cap DictKeys(loaded_modules[use_nodes[1].module_name]))
                    \subseteq DictKeys(imported_symbols)


(***************************************************************************)
(* Constructors of imported structs                                        *)
(***************************************************************************)
\* the structs the import table holds under their simple name
ImportedStructNames ==
    {imported_symbols[i].key.name
        : i \in {j \in DOMAIN imported_symbols :
                    imported_symbols[j].key.ns = "" /\ imported_symbols[j].val.type = "struct"}}

\* the nodes of the file of the form S(args), S an imported struct
Instantiations ==
    {n \in AllNodesOf(ast) : n.kind \in {"Call", "StructConstructor"} /\ n.name \in ImportedStructNames}

\* C29: a struct S imported with `use M select S` is instantiated with
\* S(args): the node is a struct constructor, and lowering it is not refused
\* as a call of an undeclared function or of something that is no function.
ClaimC29_ImportedConstructor ==
    /\ \A n \in Instantiations : n.kind = "StructConstructor"
    /\ (Instantiations # {} /\ GeneratorRaised)
          => raised \notin {SemNotFunction, SemUndeclaredFunction}


(***************************************************************************)
(* Unqualified names after a bare `use M`                                  *)
(***************************************************************************)
\* the file has `use utils` and no other use statement
BareUseOnly == use_nodes = <<UseNode("utils", <<>>, FALSE)>>

\* the calls and reads of the file that name, without the prefix, an export
\* registered under `utils.S`, the file defining no S of its own
UnqualifiedUses ==
    {n \in AllNodesOf(ast) :
        /\ n.kind \in {"Call", "Identifier"}
        /\ Key("utils", n.name) \in DictKeys(imported_symbols)
        /\ n.name \notin TopLevelGlobals \cup TopLevelFunctions}

\* C30: after a bare `use M` the exports of M are reachable only as `M.S`: a
\* file that calls or reads S unqualified, defining no S of its own, is
\* rejected (generate() does not return a module for it).
ClaimC30_QualifiedOnly == (BareUseOnly /\ UnqualifiedUses # {}) => gen_pc # "done"

====
